---- MODULE Spec2Model ----
(***************************************************************************)
(* A model of the troubadour mixer engine                                  *)
(* (crates/core/src/domain/mixer.rs, crates/core/src/domain/mixer/bus.rs), *)
(* of the mutex the commands and the audio worker share it under           *)
(* (gui/src-tauri/src/lib.rs, crates/infra/src/audio/engine.rs) and of the *)
(* lock-free ring buffer (crates/infra/src/audio/lockfree_buffer.rs), of   *)
(* the audio engine's streams (crates/infra/src/audio/engine.rs,           *)
(* crates/infra/src/audio/stream.rs) and of the configuration that is      *)
(* turned into a mixer (crates/core/src/domain/config.rs).                 *)
(*                                                                         *)
(* Samples and gains are f32 in the source.  The model keeps them as       *)
(* fixed-point integers counted in thousandths (GainUnit, One); a product  *)
(* is rounded towards minus infinity to the next thousandth.               *)
(***************************************************************************)
EXTENDS Integers, Sequences, FiniteSets, TLC

(* ------------------------------ bounds --------------------------------- *)

\* number of channel ids the control plane draws its arguments from
NumChannels == 3

\* longest input buffer handed to one process call
MaxLen == 2

\* the capacity a ring buffer is requested with
RequestedCapacity == 3

\* number of samples the producer hands to the ring buffer in one run
MaxOffered == 8

\* longest slice handed to one write or read call
MaxChunk == 3

\* highest peak level the meters are followed to, in dB
MaxPeak == 10

\* longest effects chain
MaxEffects == 2

(* ------------------------- program constants --------------------------- *)

MIN_BUSES == 2
MAX_BUSES == 5

MIN_GAIN == -60
UNITY_GAIN == 0
MAX_GAIN == 6

\* AudioLevel::MIN_LEVEL, AudioLevel::MAX_LEVEL
MIN_LEVEL == -60
MAX_LEVEL == 0

\* bounded(8): the number of buffers the channel of an AudioStream holds
QueueCapacity == 8

\* params::HOLD_MIN and params::HOLD_MAX, in ms
HOLD_MIN == 0

HOLD_MAX == 2000

\* the rate in the hold conversion of NoiseGate::process
HoldRate == 48000

(* ------------------------------ identifiers ---------------------------- *)

ChannelNames == <<"ch1", "ch2", "ch3", "ch4">>

ChannelIds == {ChannelNames[i] : i \in 1..NumChannels}

\* the channel ids of the frame-processing specification
MixChannels == {ChannelNames[1], ChannelNames[2]}

\* Option<T>: None is the empty set, Some(x) the singleton
None == {}

Some(x) == {x}

\* Option::unwrap, and the value behind `if let Some(x)`
the(option) == CHOOSE x \in option : TRUE

(* ------------------------------ value types ---------------------------- *)

Clamp(x, lo, hi) == IF x < lo THEN lo ELSE IF x > hi THEN hi ELSE x

\* 10^(db/20) in thousandths, for the decibel levels the model uses
Pow10Db20(db) ==
    CASE db = -6 -> 501
      [] db = 0 -> 1000
      [] db = 6 -> 1995

\* the fixed-point value of the gain 1.0 and of the sample 1.0
GainUnit == Pow10Db20(0)

One == GainUnit

VolumeDecibels_new(db) == Clamp(db, MIN_GAIN, MAX_GAIN)

to_amplitude(db) == IF db <= MIN_GAIN THEN 0 ELSE Pow10Db20(db)

db_to_gain(db) == IF db <= -60 THEN 0 ELSE Pow10Db20(db)

\* sample * gain
Scale(sample, gain) == (sample * gain) \div GainUnit

(* -------------------------------- buses -------------------------------- *)

StandardBus == <<"A1", "A2", "A3", "A4", "A5">>

Bus_standard(id) ==
    [id |-> id, output_device |-> None, volume_db |-> 0, muted |-> FALSE]

\* a bus whose mute flag is not looked at
Bus_gain_ignoring_mute(bus) == db_to_gain(bus.volume_db)

Bus_gain(bus) == IF bus.muted THEN 0 ELSE db_to_gain(bus.volume_db)

create_default_buses == <<Bus_standard(StandardBus[1]), Bus_standard(StandardBus[2])>>

(* ------------------------------- channels ------------------------------ *)

\* AudioLevel::new()
AudioLevel_new == [current_db |-> MIN_LEVEL, peak_db |-> MIN_LEVEL]

MixerChannel_new ==
    [volume |-> VolumeDecibels_new(UNITY_GAIN), muted |-> FALSE, solo |-> FALSE,
     level |-> AudioLevel_new, input_device |-> None]

\* a mixer that forgets the solo rule
is_audible_ignoring_solo(channel, any_solo) == ~channel.muted

is_audible(channel, any_solo) ==
    IF channel.muted THEN FALSE
    ELSE IF any_solo /\ ~channel.solo THEN FALSE
    ELSE TRUE

(* ---------------------------- routing matrix --------------------------- *)

\* routes: a map from (from, to) to the enabled flag
RoutingMatrix_new == << >>

\* an insert that keeps the flag of an entry the map already holds
set_route_keeping_entry(routes, from, to, enabled) ==
    [p \in DOMAIN routes \cup {<<from, to>>} |->
        IF p \in DOMAIN routes THEN routes[p] ELSE enabled]

\* self.routes.insert((from, to), enabled)
set_route(routes, from, to, enabled) ==
    [p \in DOMAIN routes \cup {<<from, to>>} |->
        IF p = <<from, to>> THEN enabled ELSE routes[p]]

is_routed(routes, from, to) ==
    IF <<from, to>> \in DOMAIN routes THEN routes[<<from, to>>] ELSE FALSE

\* a fan-out that follows the routes of its destinations one step further
get_outputs_onward(routes, from) ==
    LET direct == {p[2] : p \in {q \in DOMAIN routes : q[1] = from /\ routes[q]}}
    IN direct \cup {p[2] : p \in {q \in DOMAIN routes : q[1] \in direct /\ routes[q]}}

\* the destinations of the enabled entries of one source; the map holds each
\* pair once, so the Vec the source returns has no duplicates
get_outputs(routes, from) ==
    {p[2] : p \in {q \in DOMAIN routes : q[1] = from /\ routes[q]}}

\* a purge that looks at the source of an entry only
retain_without_source(routes, id) ==
    [p \in {q \in DOMAIN routes : q[1] # id} |-> routes[p]]

\* a purge that looks at the destination of an entry only
retain_without_destination(routes, id) ==
    [p \in {q \in DOMAIN routes : q[2] # id} |-> routes[p]]

\* routes.retain(|(from, to), _| from != id && to != id)
retain_without(routes, id) ==
    [p \in {q \in DOMAIN routes : q[1] # id /\ q[2] # id} |-> routes[p]]

(* -------------------------------- state -------------------------------- *)

VARIABLES
    channels,           \* MixerEngine.channels: id -> channel
    routing,            \* MixerEngine.routing.routes
    buses,              \* MixerEngine.buses
    soloed_channel_id,  \* MixerEngine.soloed_channel_id
    last,               \* the last call: its name, arguments and result
    mixer_lock,         \* Arc<Mutex<MixerEngine>>: the thread holding the guard
    command,            \* a control-plane thread inside a command
    worker,             \* the audio worker inside process_audio
    buffer,             \* LockFreeRingBuffer.buffer
    write_pos,          \* LockFreeRingBuffer.write_pos
    read_pos,           \* LockFreeRingBuffer.read_pos
    producer,           \* the locals of the write call in progress
    consumer,           \* the locals of the read call in progress
    offered,            \* number of samples handed to write so far
    accepted,           \* every sample write has stored, in order
    returned,           \* every sample read has returned, in order
    audio_engine,       \* AppState.audio_engine: Option<AudioEngine>
    call,               \* the thread inside start_audio, refresh_audio_streams or stop_audio
    audio,              \* the thread inside AudioEngine::process_audio
    noise_gate,         \* a NoiseGate of an effects chain processor, once created
    resampler,          \* the Resampler of an input stream, when it has one
    ring_buffer         \* a RingBuffer of stream.rs

mixer_vars == <<channels, routing, buses, soloed_channel_id, last>>

sync_vars == <<mixer_lock, command, worker>>

ring_vars ==
    <<buffer, write_pos, read_pos, producer, consumer, offered, accepted, returned>>

engine_vars == <<audio_engine, call, audio>>

effects_vars == <<noise_gate>>

stream_vars == <<resampler, ring_buffer>>

\* what an operation of the mixer engine does not touch
outside_mixer == <<sync_vars, ring_vars, effects_vars, stream_vars, engine_vars>>

\* what an operation of the ring buffer does not touch
outside_ring == <<mixer_vars, sync_vars, effects_vars, stream_vars, engine_vars>>

vars == <<mixer_vars, sync_vars, ring_vars, effects_vars, stream_vars, engine_vars>>

\* MixerEngine::new()
MixerInit ==
    /\ channels = << >>
    /\ routing = RoutingMatrix_new
    /\ buses = create_default_buses
    /\ soloed_channel_id = None
    /\ last = [op |-> "new"]

(* ---------------------- control plane: channels ------------------------ *)

\* channels.insert(channel.id, channel): a second insert of an id replaces it
insert_channel(chs, id, channel) ==
    [c \in DOMAIN chs \cup {id} |-> IF c = id THEN channel ELSE chs[c]]

\* channels.remove(id)
without_channel(chs, id) == [c \in DOMAIN chs \ {id} |-> chs[c]]

AddChannel(id) ==
    /\ channels' = insert_channel(channels, id, MixerChannel_new)
    /\ last' = [op |-> "add_channel", id |-> id, ret |-> "Ok"]
    /\ UNCHANGED <<routing, buses, soloed_channel_id, outside_mixer>>

\* a removal that reports success for an id the collection does not hold
remove_is_some_always(chs, id) == TRUE

\* self.channels.remove(id).is_some()
remove_is_some(chs, id) == id \in DOMAIN chs

RemoveChannel(id) ==
    IF remove_is_some(channels, id)
    THEN /\ channels' = without_channel(channels, id)
         /\ routing' = retain_without(routing, id)
         /\ last' = [op |-> "remove_channel", id |-> id, ret |-> "Ok",
                     purged |-> DOMAIN routing \ DOMAIN retain_without(routing, id)]
         /\ UNCHANGED <<buses, soloed_channel_id, outside_mixer>>
    ELSE /\ last' = [op |-> "remove_channel", id |-> id, ret |-> "NotFound"]
         /\ UNCHANGED <<channels, routing, buses, soloed_channel_id, outside_mixer>>

\* channel_mut(id) then MixerChannel::toggle_mute
ToggleMute(id) ==
    IF id \in DOMAIN channels
    THEN /\ channels' = [channels EXCEPT ![id].muted = ~channels[id].muted]
         /\ last' = [op |-> "toggle_mute", id |-> id, ret |-> "Ok"]
         /\ UNCHANGED <<routing, buses, soloed_channel_id, outside_mixer>>
    ELSE /\ last' = [op |-> "toggle_mute", id |-> id, ret |-> "NotFound"]
         /\ UNCHANGED <<channels, routing, buses, soloed_channel_id, outside_mixer>>

\* channel_mut(id) then MixerChannel::toggle_solo: flips this channel only
ToggleSolo(id) ==
    IF id \in DOMAIN channels
    THEN /\ channels' = [channels EXCEPT ![id].solo = ~channels[id].solo]
         /\ last' = [op |-> "toggle_solo", id |-> id, ret |-> "Ok"]
         /\ UNCHANGED <<routing, buses, soloed_channel_id, outside_mixer>>
    ELSE /\ last' = [op |-> "toggle_solo", id |-> id, ret |-> "NotFound"]
         /\ UNCHANGED <<channels, routing, buses, soloed_channel_id, outside_mixer>>

\* channel_mut(id) then MixerChannel::set_volume
SetVolume(id, db) ==
    IF id \in DOMAIN channels
    THEN /\ channels' = [channels EXCEPT ![id].volume = VolumeDecibels_new(db)]
         /\ last' = [op |-> "set_volume", id |-> id, ret |-> "Ok"]
         /\ UNCHANGED <<routing, buses, soloed_channel_id, outside_mixer>>
    ELSE /\ last' = [op |-> "set_volume", id |-> id, ret |-> "NotFound"]
         /\ UNCHANGED <<channels, routing, buses, soloed_channel_id, outside_mixer>>

(* ------------------------ exclusive solo -------------------------------- *)

\* a loop that soloes the channel and leaves the others as they were
solo_only_keeping_others(chs, channel_id) ==
    [c \in DOMAIN chs |-> [chs[c] EXCEPT !.solo = (chs[c].solo \/ c = channel_id)]]

\* a loop that lost its comparison
solo_only_everyone(chs, channel_id) ==
    [c \in DOMAIN chs |-> [chs[c] EXCEPT !.solo = TRUE]]

\* for channel in channels.values_mut() { channel.solo = channel.id == *channel_id }
solo_only(chs, channel_id) ==
    [c \in DOMAIN chs |-> [chs[c] EXCEPT !.solo = (c = channel_id)]]

\* if let Some(channel) = channels.get_mut(channel_id) { channel.solo = false }
unsolo(chs, channel_id) ==
    IF channel_id \in DOMAIN chs
    THEN [chs EXCEPT ![channel_id].solo = FALSE]
    ELSE chs

\* a record cleared whichever channel is unsoloed
clear_record_always(soloed, channel_id) == None

\* if soloed_channel_id == Some(channel_id) { soloed_channel_id = None }
clear_record(soloed, channel_id) ==
    IF soloed = Some(channel_id) THEN None ELSE soloed

SetChannelSoloExclusive(channel_id, solo_state) ==
    /\ IF solo_state
       THEN /\ channels' = solo_only(channels, channel_id)
            /\ soloed_channel_id' = Some(channel_id)
       ELSE /\ soloed_channel_id' = clear_record(soloed_channel_id, channel_id)
            /\ channels' = unsolo(channels, channel_id)
    /\ last' = [op |-> "set_channel_solo_exclusive", id |-> channel_id,
                state |-> solo_state, ret |-> "Ok",
                \* what the call found: the soloed channels and the record
                solo_before |-> {c \in DOMAIN channels : channels[c].solo},
                record_before |-> soloed_channel_id]
    /\ UNCHANGED <<routing, buses, outside_mixer>>

(* ------------------------- control plane: buses ------------------------ *)

bus_count == Len(buses)

\* a minimum test that lets one more bus go
at_minimum_off_by_one(bs) == Len(bs) < MIN_BUSES

\* a minimum test that refuses one bus too early
at_minimum_too_early(bs) == Len(bs) <= MIN_BUSES + 1

\* self.buses.len() <= Self::MIN_BUSES
at_minimum(bs) == Len(bs) <= MIN_BUSES

\* a bus number that counts from zero
next_bus_num_from_zero(bs) == Len(bs)

\* let next_bus_num = self.buses.len() + 1
next_bus_num(bs) == Len(bs) + 1

\* self.buses.len() >= Self::MAX_BUSES
at_maximum(bs) == Len(bs) >= MAX_BUSES

AddBus ==
    IF at_maximum(buses)
    THEN /\ last' = [op |-> "add_bus", ret |-> "InvalidConfiguration"]
         /\ UNCHANGED <<channels, routing, buses, soloed_channel_id, outside_mixer>>
    ELSE LET n == next_bus_num(buses)
         IN IF n \in 1..5
            THEN /\ buses' = Append(buses, Bus_standard(StandardBus[n]))
                 /\ last' = [op |-> "add_bus", ret |-> "Ok", id |-> StandardBus[n]]
                 /\ UNCHANGED <<channels, routing, soloed_channel_id, outside_mixer>>
            ELSE /\ last' = [op |-> "add_bus", ret |-> "InvalidConfiguration"]
                 /\ UNCHANGED <<channels, routing, buses, soloed_channel_id, outside_mixer>>

RemoveBus ==
    IF at_minimum(buses)
    THEN /\ last' = [op |-> "remove_bus", ret |-> "InvalidConfiguration"]
         /\ UNCHANGED <<channels, routing, buses, soloed_channel_id, outside_mixer>>
    ELSE LET removed_bus == buses[Len(buses)]
         IN /\ buses' = SubSeq(buses, 1, Len(buses) - 1)
            /\ routing' = retain_without(routing, removed_bus.id)
            /\ last' = [op |-> "remove_bus", ret |-> "Ok", id |-> removed_bus.id,
                        purged |-> DOMAIN routing
                                    \ DOMAIN retain_without(routing, removed_bus.id)]
            /\ UNCHANGED <<channels, soloed_channel_id, outside_mixer>>

\* buses.iter_mut().find(|b| &b.id == bus_id): the index of the first match, 0 if none
bus_index(bs, bus_id) ==
    IF \E i \in 1..Len(bs) : bs[i].id = bus_id
    THEN CHOOSE i \in 1..Len(bs) :
            /\ bs[i].id = bus_id
            /\ \A j \in 1..(i - 1) : bs[j].id # bus_id
    ELSE 0

\* bus_mut(bus_id) then Bus::toggle_mute
ToggleBusMute(bus_id) ==
    LET i == bus_index(buses, bus_id)
    IN IF i # 0
       THEN /\ buses' = [buses EXCEPT ![i].muted = ~buses[i].muted]
            /\ last' = [op |-> "toggle_bus_mute", id |-> bus_id, ret |-> "Ok"]
            /\ UNCHANGED <<channels, routing, soloed_channel_id, outside_mixer>>
       ELSE /\ last' = [op |-> "toggle_bus_mute", id |-> bus_id, ret |-> "NotFound"]
            /\ UNCHANGED <<channels, routing, buses, soloed_channel_id, outside_mixer>>

\* bus_mut(bus_id) then Bus::set_volume
SetBusVolume(bus_id, db) ==
    LET i == bus_index(buses, bus_id)
    IN IF i # 0
       THEN /\ buses' = [buses EXCEPT ![i].volume_db = Clamp(db, -60, 6)]
            /\ last' = [op |-> "set_bus_volume", id |-> bus_id, ret |-> "Ok"]
            /\ UNCHANGED <<channels, routing, soloed_channel_id, outside_mixer>>
       ELSE /\ last' = [op |-> "set_bus_volume", id |-> bus_id, ret |-> "NotFound"]
            /\ UNCHANGED <<channels, routing, buses, soloed_channel_id, outside_mixer>>

(* ------------------------ control plane: routing ----------------------- *)

\* routing_mut().set_route(from, to, enabled)
SetRoute(from, to, enabled) ==
    /\ routing' = set_route(routing, from, to, enabled)
    /\ last' = [op |-> "set_route", from |-> from, to |-> to, enabled |-> enabled]
    /\ UNCHANGED <<channels, buses, soloed_channel_id, outside_mixer>>

\* routing_mut().clear()
ClearRoutes ==
    /\ routing' = RoutingMatrix_new
    /\ last' = [op |-> "clear"]
    /\ UNCHANGED <<channels, buses, soloed_channel_id, outside_mixer>>

\* a fold of set_route(from, to, enabled) over the destinations tos
set_routes(routes, from, tos, enabled) ==
    [p \in DOMAIN routes \cup {<<from, t>> : t \in tos} |->
        IF p[1] = from /\ p[2] \in tos THEN enabled ELSE routes[p]]

\* get_outputs(channel_id) filtered to the ids of the current buses
get_channel_buses(routes, bs, channel_id) ==
    {id \in get_outputs(routes, channel_id) : \E i \in 1..Len(bs) : bs[i].id = id}

\* an assignment that enables the selected buses without clearing the others
set_channel_buses_without_clear(routes, bs, channel_id, bus_ids) ==
    set_routes(routes, channel_id, bus_ids, TRUE)

set_channel_buses(routes, bs, channel_id, bus_ids) ==
    set_routes(set_routes(routes, channel_id, {bs[i].id : i \in 1..Len(bs)}, FALSE),
               channel_id, bus_ids, TRUE)

SetChannelBuses(channel_id, bus_ids) ==
    /\ routing' = set_channel_buses(routing, buses, channel_id, bus_ids)
    /\ last' = [op |-> "set_channel_buses", id |-> channel_id, bus_ids |-> bus_ids]
    /\ UNCHANGED <<channels, buses, soloed_channel_id, outside_mixer>>

(* ------------------------------ level meters --------------------------- *)

abs(x) == IF x < 0 THEN -x ELSE x

max(a, b) == IF a >= b THEN a ELSE b

\* 20 * log10(amplitude) in dB, for the amplitudes (in thousandths) the model uses
Db20Log10(amplitude) ==
    CASE amplitude = 1 -> -60
      [] amplitude = 501 -> -6
      [] amplitude = 1000 -> 0
      [] amplitude = 1995 -> 6

\* AudioLevel::update
AudioLevel_update(level, sample) ==
    LET new_level == IF abs(sample) > 0
                     THEN Clamp(Db20Log10(abs(sample)), MIN_LEVEL, MAX_LEVEL)
                     ELSE MIN_LEVEL
    IN [current_db |-> new_level, peak_db |-> max(level.peak_db, new_level)]

\* AudioLevel::decay_peak
decay_peak(level, amount) ==
    [level EXCEPT !.peak_db = max(level.peak_db - amount, MIN_LEVEL)]

\* channel_mut(id) then MixerChannel::update_level
UpdateLevel(id, sample) ==
    IF id \in DOMAIN channels
    THEN /\ channels' = [channels EXCEPT
                            ![id].level = AudioLevel_update(channels[id].level, sample)]
         /\ last' = [op |-> "update_level", id |-> id, sample |-> sample,
                     before |-> channels[id].level]
         /\ UNCHANGED <<routing, buses, soloed_channel_id, outside_mixer>>
    ELSE /\ last' = [op |-> "update_level", id |-> id, ret |-> "NotFound"]
         /\ UNCHANGED <<channels, routing, buses, soloed_channel_id, outside_mixer>>

\* MixerEngine::decay_meters: decay_peak on every channel; the peak of an f32
\* meter has no bound of its own, the walk stops at MaxPeak
DecayMeters(amount) ==
    /\ \A c \in DOMAIN channels : channels[c].level.peak_db - amount <= MaxPeak
    /\ channels' = [c \in DOMAIN channels |->
                        [channels[c] EXCEPT !.level = decay_peak(channels[c].level, amount)]]
    /\ last' = [op |-> "decay_meters", amount |-> amount,
                before |-> [c \in DOMAIN channels |-> channels[c].level]]
    /\ UNCHANGED <<routing, buses, soloed_channel_id, outside_mixer>>

(* ------------------------------ configuration -------------------------- *)

\* ChannelConfig::to_channel, and the same statements in the load_config command
to_channel(channel_config) ==
    LET created == MixerChannel_new
        with_volume == [created EXCEPT
                           !.volume = VolumeDecibels_new(channel_config.volume_db)]
        with_mute == IF channel_config.muted
                     THEN [with_volume EXCEPT !.muted = ~with_volume.muted]
                     ELSE with_volume
        with_solo == IF channel_config.solo
                     THEN [with_mute EXCEPT !.solo = ~with_mute.solo]
                     ELSE with_mute
    IN [with_solo EXCEPT !.input_device = channel_config.input_device]

RECURSIVE add_channels(_, _)
\* for channel_config in &config.channels { add_channel(to_channel(channel_config)) }
add_channels(chs, channel_configs) ==
    IF channel_configs = << >> THEN chs
    ELSE add_channels(insert_channel(chs, Head(channel_configs).id,
                                     to_channel(Head(channel_configs))),
                      Tail(channel_configs))

\* if let Some(bus) = bus_mut(id) { bus.volume_db = bus_config.volume_db; .. }
configure_bus(bs, bus_config) ==
    LET i == bus_index(bs, bus_config.id)
    IN IF i # 0
       THEN [bs EXCEPT ![i] = [@ EXCEPT !.volume_db = bus_config.volume_db,
                                        !.muted = bus_config.muted,
                                        !.output_device = bus_config.output_device]]
       ELSE bs

RECURSIVE configure_buses(_, _)
configure_buses(bs, bus_configs) ==
    IF bus_configs = << >> THEN bs
    ELSE configure_buses(configure_bus(bs, Head(bus_configs)), Tail(bus_configs))

RECURSIVE apply_routes(_, _)
\* for route_config in &config.routing.routes { set_route(from, to, enabled) }
apply_routes(routes, route_configs) ==
    IF route_configs = << >> THEN routes
    ELSE apply_routes(set_route(routes, Head(route_configs).from, Head(route_configs).to,
                                Head(route_configs).enabled),
                      Tail(route_configs))

\* MixerEngine::add_bus on a bus list; an Err leaves the list as it was
add_bus(bs) ==
    IF at_maximum(bs) THEN bs
    ELSE LET n == next_bus_num(bs)
         IN IF n \in 1..5 THEN Append(bs, Bus_standard(StandardBus[n])) ELSE bs

\* MixerEngine::remove_bus on a bus list; an Err leaves the list as it was
remove_bus(bs) ==
    IF at_minimum(bs) THEN bs ELSE SubSeq(bs, 1, Len(bs) - 1)

RECURSIVE add_buses_until(_, _)
\* while bus_count() < target { if add_bus().is_err() { break } }
add_buses_until(bs, target) ==
    IF Len(bs) < target /\ add_bus(bs) # bs
    THEN add_buses_until(add_bus(bs), target)
    ELSE bs

RECURSIVE remove_buses_until(_, _)
\* while bus_count() > target { if remove_bus().is_err() { break } }
remove_buses_until(bs, target) ==
    IF Len(bs) > target /\ remove_bus(bs) # bs
    THEN remove_buses_until(remove_bus(bs), target)
    ELSE bs

\* MixerConfig::to_mixer_engine
to_mixer_engine(config) ==
    LET target_bus_count == Len(config.buses)
        sized == remove_buses_until(add_buses_until(create_default_buses,
                                                    target_bus_count),
                                    target_bus_count)
    IN [channels |-> add_channels(<< >>, config.channels),
        buses |-> configure_buses(sized, config.buses),
        routing |-> apply_routes(RoutingMatrix_new, config.routes),
        soloed_channel_id |-> None]

\* .collect() of an iterator over a set: its elements in some order
RECURSIVE collect(_)
collect(set) ==
    IF set = {} THEN << >>
    ELSE LET x == CHOOSE y \in set : TRUE
         IN <<x>> \o collect(set \ {x})

\* impl From<&MixerChannel> for ChannelConfig
ChannelConfig_from(id, channel) ==
    [id |-> id, volume_db |-> channel.volume, muted |-> channel.muted,
     solo |-> channel.solo, input_device |-> channel.input_device]

\* MixerConfig::from_mixer_engine: the routes are the enabled outputs of the
\* engine's channels
from_mixer_engine(engine) ==
    LET channel_ids == collect(DOMAIN engine.channels)
    IN [channels |-> [i \in 1..Len(channel_ids) |->
                         ChannelConfig_from(channel_ids[i],
                                            engine.channels[channel_ids[i]])],
        buses |-> [i \in 1..Len(engine.buses) |->
                      [id |-> engine.buses[i].id,
                       volume_db |-> engine.buses[i].volume_db,
                       muted |-> engine.buses[i].muted,
                       output_device |-> engine.buses[i].output_device]],
        routes |-> collect(UNION {{[from |-> from, to |-> to, enabled |-> TRUE] :
                                      to \in get_outputs(engine.routing, from)} :
                                  from \in DOMAIN engine.channels})]

\* a mixer built from a configuration takes the place of the current one
ToMixerEngine(config) ==
    /\ channels' = to_mixer_engine(config).channels
    /\ buses' = to_mixer_engine(config).buses
    /\ routing' = to_mixer_engine(config).routing
    /\ soloed_channel_id' = to_mixer_engine(config).soloed_channel_id
    /\ last' = [op |-> "to_mixer_engine", config |-> config]
    /\ UNCHANGED outside_mixer

\* the load_config command: the channels of the file are added over the current
\* ones, the buses it names are overwritten, its routes are set
LoadConfig(config) ==
    /\ channels' = add_channels(channels, config.channels)
    /\ buses' = configure_buses(buses, config.buses)
    /\ routing' = apply_routes(routing, config.routes)
    /\ last' = [op |-> "load_config", config |-> config]
    /\ UNCHANGED <<soloed_channel_id, outside_mixer>>

(* ---------------------------- frame processing ------------------------- *)

\* vec![0.0; n]
zeros(n) == [k \in 1..n |-> 0]

\* a mix that stores the last buffer instead of adding it
mix_into_overwriting(output, processed_buffer, gain) ==
    [k \in 1..Len(output) |->
        IF k <= Len(processed_buffer)
        THEN Scale(processed_buffer[k], gain)
        ELSE output[k]]

\* output.iter_mut().zip(processed_buffer.iter()).for_each(|(out, &sample)| *out += sample * gain)
\* zip stops at the shorter of the two
mix_into(output, processed_buffer, gain) ==
    [k \in 1..Len(output) |->
        IF k <= Len(processed_buffer)
        THEN output[k] + Scale(processed_buffer[k], gain)
        ELSE output[k]]

\* for output_id in output_ids { outputs.entry(output_id).or_insert_with(zeros) += buffer * gain }
\* acc.outputs are the buffers, acc.accumulated logs each (input, output) pair mixed
accumulate(acc, input_id, output_ids, processed_buffer, gain) ==
    [outputs |->
        [d \in DOMAIN acc.outputs \cup output_ids |->
            IF d \in output_ids
            THEN mix_into(IF d \in DOMAIN acc.outputs
                          THEN acc.outputs[d]
                          ELSE zeros(Len(processed_buffer)),
                          processed_buffer, gain)
            ELSE acc.outputs[d]],
     accumulated |-> acc.accumulated \cup {<<input_id, d>> : d \in output_ids}]

\* the body of `for (input_id, input_buffer) in inputs`, with no effects processor
mix_input(chs, routes, any_solo, acc, input_id, input_buffer) ==
    IF input_id \notin DOMAIN chs THEN acc
    ELSE IF ~is_audible(chs[input_id], any_solo) THEN acc
    ELSE IF chs[input_id].muted THEN acc
    ELSE accumulate(acc, input_id, get_outputs(routes, input_id), input_buffer,
                    to_amplitude(chs[input_id].volume))

RECURSIVE mix_inputs(_, _, _, _, _, _)
\* the loop over the input map, visited in the sequence order
mix_inputs(chs, routes, any_solo, inputs, order, acc) ==
    IF order = << >> THEN acc
    ELSE mix_inputs(chs, routes, any_solo, inputs, Tail(order),
                    mix_input(chs, routes, any_solo, acc, Head(order), inputs[Head(order)]))

\* the second loop: outputs whose id is a bus id get the bus gain
apply_bus_gain(bs, output_id, output_buffer) ==
    LET i == bus_index(bs, output_id)
    IN IF i # 0
       THEN LET bus_gain == Bus_gain(bs[i])
            IN IF bus_gain = 0
               THEN [k \in 1..Len(output_buffer) |-> 0]
               ELSE [k \in 1..Len(output_buffer) |-> Scale(output_buffer[k], bus_gain)]
       ELSE output_buffer

\* process(inputs) = process_with_effects(inputs, no processors); order is the
\* order in which the HashMap of inputs happens to be iterated
process_with_effects(chs, routes, bs, inputs, order) ==
    LET any_solo == \E c \in DOMAIN chs : chs[c].solo
        mixed == mix_inputs(chs, routes, any_solo, inputs, order,
                            [outputs |-> << >>, accumulated |-> {}])
    IN [outputs |-> [d \in DOMAIN mixed.outputs |->
                        apply_bus_gain(bs, d, mixed.outputs[d])],
        accumulated |-> mixed.accumulated]

\* the iteration orders of a map with key set S
Orders(S) ==
    {o \in [1..Cardinality(S) -> S] : \A i, j \in 1..Cardinality(S) : o[i] = o[j] => i = j}

Process(inputs, order) ==
    /\ last' = [op |-> "process", inputs |-> inputs,
                result |-> process_with_effects(channels, routing, buses, inputs, order)]
    /\ UNCHANGED <<channels, routing, buses, soloed_channel_id, outside_mixer>>

(* ------------------------------ effects chain -------------------------- *)

\* an effect of a chain as the processor sees it: its name, whether it is
\* bypassed, and whether its process returns an error on this frame; a frame
\* is followed as the list of the effects that have been applied to it
Effect_process(effect, frame) ==
    IF effect.fails
    THEN [ret |-> "Err", frame |-> frame]
    ELSE [ret |-> "Ok", frame |-> Append(frame, effect.name)]

\* EffectsChainProcessor::process:
\* for effect in &mut self.effects { if !effect.is_bypassed() { effect.process(buffer)?; } } Ok(())
RECURSIVE process_chain(_, _)
process_chain(effects, frame) ==
    IF effects = << >> THEN [ret |-> "Ok", frame |-> frame]
    ELSE IF Head(effects).bypassed THEN process_chain(Tail(effects), frame)
    ELSE LET done == Effect_process(Head(effects), frame)
         IN IF done.ret = "Err"
            THEN done
            ELSE process_chain(Tail(effects), done.frame)

\* process_with_effects on one channel: let _ = processor.process(&mut processed_buffer)
ProcessChain(effects) ==
    /\ last' = [op |-> "process_chain", effects |-> effects,
                result |-> process_chain(effects, << >>)]
    /\ UNCHANGED <<channels, routing, buses, soloed_channel_id, outside_mixer>>

(* ------------------------- effects: stereo loops ----------------------- *)

\* a buffer of len samples as the effects see it: for every index, the filters
\* or envelopes the sample has been put through, in order
untouched(len) == [k \in 0..(len - 1) |-> << >>]

through(touched, idx, side) == [touched EXCEPT ![idx] = Append(@, side)]

\* Equalizer::process: for i in 0..buffer.len() / channels, with
\* if right_idx < buffer.len() { left; right } else if left_idx < buffer.len() { left }
RECURSIVE equalizer_loop(_, _, _)
equalizer_loop(i, len, touched) ==
    IF i >= len \div 2 THEN touched
    ELSE LET left_idx == i * 2
             right_idx == left_idx + 1
         IN equalizer_loop(i + 1, len,
                IF right_idx < len
                THEN through(through(touched, left_idx, "left"), right_idx, "right")
                ELSE IF left_idx < len
                THEN through(touched, left_idx, "left")
                ELSE touched)

equalizer_process(len) == equalizer_loop(0, len, untouched(len))

\* Compressor::process: for i in 0..buffer.len() / channels, with
\* if left_idx < buffer.len() { left }  if right_idx < buffer.len() { right }
RECURSIVE compressor_loop(_, _, _)
compressor_loop(i, len, touched) ==
    IF i >= len \div 2 THEN touched
    ELSE LET left_idx == i * 2
             right_idx == left_idx + 1
             after_left == IF left_idx < len
                           THEN through(touched, left_idx, "left")
                           ELSE touched
         IN compressor_loop(i + 1, len,
                IF right_idx < len
                THEN through(after_left, right_idx, "right")
                ELSE after_left)

compressor_process(len) == compressor_loop(0, len, untouched(len))

EqualizerProcess(len) ==
    /\ last' = [op |-> "equalizer_process", len |-> len,
                result |-> equalizer_process(len)]
    /\ UNCHANGED <<channels, routing, buses, soloed_channel_id, outside_mixer>>

CompressorProcess(len) ==
    /\ last' = [op |-> "compressor_process", len |-> len,
                result |-> compressor_process(len)]
    /\ UNCHANGED <<channels, routing, buses, soloed_channel_id, outside_mixer>>

(* --------------------------- effects: noise gate ----------------------- *)

\* NoiseGate::new(sample_rate): sample_rate is the argument of the constructor,
\* which the struct itself keeps only inside its coefficients; times are in ms
NoiseGate_new(sample_rate) ==
    [sample_rate |-> sample_rate, hold_ms |-> 100,
     hold_counter_left |-> 0, hold_counter_right |-> 0]

\* NoiseGate::set_params: hold_sec = params.hold_sec.clamp(HOLD_MIN, HOLD_MAX)
NoiseGate_set_params(gate, hold_ms) ==
    [gate EXCEPT !.hold_ms = Clamp(hold_ms, HOLD_MIN, HOLD_MAX)]

\* let hold_samples = (self.hold_sec * 48000.0) as u32
hold_samples(gate) == (gate.hold_ms * HoldRate) \div 1000

\* if envelope > 0.5 { counter = hold_samples } else if counter > 0 { counter -= 1 }
hold_counter(counter, envelope_high, seed) ==
    IF envelope_high THEN seed
    ELSE IF counter > 0 THEN counter - 1
    ELSE counter

\* NoiseGate::process over the frames of a buffer; highs[i] tells for the left
\* and the right sample of frame i whether the envelope is above 0.5 after
\* its update
RECURSIVE noise_gate_process(_, _)
noise_gate_process(gate, highs) ==
    IF highs = << >> THEN gate
    ELSE noise_gate_process(
            [gate EXCEPT
                !.hold_counter_left =
                    hold_counter(@, Head(highs)[1], hold_samples(gate)),
                !.hold_counter_right =
                    hold_counter(@, Head(highs)[2], hold_samples(gate))],
            Tail(highs))

EffectsInit == noise_gate = None

\* EffectsChain::create_processor for a chain with a noise gate
GateCreate(sample_rate, hold_ms) ==
    /\ noise_gate' = Some(NoiseGate_set_params(NoiseGate_new(sample_rate), hold_ms))
    /\ last' = [op |-> "create_processor", sample_rate |-> sample_rate]
    /\ UNCHANGED <<channels, routing, buses, soloed_channel_id,
                   sync_vars, ring_vars, stream_vars, engine_vars>>

\* one call of process on the gate
GateProcess(highs) ==
    /\ noise_gate # None
    /\ noise_gate' = Some(noise_gate_process(the(noise_gate), highs))
    /\ last' = [op |-> "noise_gate_process", highs |-> highs,
                before |-> the(noise_gate)]
    /\ UNCHANGED <<channels, routing, buses, soloed_channel_id,
                   sync_vars, ring_vars, stream_vars, engine_vars>>

(* ------------------------------ ring buffer ---------------------------- *)

\* a & b on machine words
RECURSIVE BitAnd(_, _)
BitAnd(a, b) ==
    IF a = 0 \/ b = 0 THEN 0
    ELSE (a % 2) * (b % 2) + 2 * BitAnd(a \div 2, b \div 2)

\* usize::is_power_of_two
is_power_of_two(n) == n > 0 /\ BitAnd(n, n - 1) = 0

\* usize::next_power_of_two: the smallest power of two >= n
RECURSIVE next_power_of_two_from(_, _)
next_power_of_two_from(p, n) ==
    IF p >= n THEN p ELSE next_power_of_two_from(2 * p, n)

next_power_of_two(n) == next_power_of_two_from(1, n)

\* a constructor that keeps the capacity it is given
with_capacity_as_given(requested) == requested

\* LockFreeRingBuffer::with_capacity: the capacity field
with_capacity(requested) ==
    IF ~is_power_of_two(requested) THEN next_power_of_two(requested) ELSE requested

capacity == with_capacity(RequestedCapacity)

\* mask: capacity - 1
mask == capacity - 1

\* (pos + i) & self.mask
slot(pos) == BitAnd(pos, mask)

\* a.min(b) that takes the requested length whatever the space
min_taking_first(a, b) == a

\* usize::min
min(a, b) == IF a <= b THEN a ELSE b

\* free space counted without the slot that is kept empty
available_write_without_gap(w, r) ==
    IF w >= r THEN capacity - (w - r) ELSE r - w

available_write_internal(w, r) ==
    IF w >= r THEN capacity - (w - r) - 1 ELSE r - w - 1

\* a fill level that counts one sample too many
available_read_one_more(r, w) ==
    IF w >= r THEN w - r + 1 ELSE capacity - (r - w) + 1

available_read_internal(r, w) ==
    IF w >= r THEN w - r ELSE capacity - (r - w)

\* one pass of the write loop: *buffer.get_unchecked_mut(pos) = samples[i]
store_sample(buf, w, samples, i) == [buf EXCEPT ![slot(w + i)] = samples[i + 1]]

\* the write loop from index i up to to_write
RECURSIVE store_samples(_, _, _, _, _)
store_samples(buf, w, samples, i, to_write) ==
    IF i >= to_write THEN buf
    ELSE store_samples(store_sample(buf, w, samples, i), w, samples, i + 1, to_write)

\* one pass of the read loop: buffer[i] = *self.buffer.get_unchecked(pos)
load_sample(buf, r, i) == buf[slot(r + i)]

\* LockFreeRingBuffer::write run on its own
write(buf, w, r, samples) ==
    LET available == available_write_internal(w, r)
        to_write == min(Len(samples), available)
    IN [buffer |-> store_samples(buf, w, samples, 0, to_write),
        write_pos |-> w + to_write,
        ret |-> to_write]

\* LockFreeRingBuffer::read run on its own; out is the part of the caller's
\* buffer that the call has filled
read(buf, r, w, len) ==
    LET available == available_read_internal(r, w)
        to_read == min(len, available)
    IN [out |-> [i \in 1..to_read |-> load_sample(buf, r, i - 1)],
        read_pos |-> r + to_read,
        ret |-> to_read]

\* the samples of the next write call: numbered on from those offered so far
next_samples(n) == [k \in 1..n |-> offered + k]

RingInit ==
    /\ buffer = [s \in 0..(capacity - 1) |-> 0]
    /\ write_pos = 0
    /\ read_pos = 0
    /\ producer = [pc |-> "idle"]
    /\ consumer = [pc |-> "idle"]
    /\ offered = 0
    /\ accepted = << >>
    /\ returned = << >>

\* a whole write call, no read call in progress
Write(n) ==
    /\ producer.pc = "idle" /\ consumer.pc = "idle"
    /\ offered + n <= MaxOffered
    /\ LET samples == next_samples(n)
           w == write(buffer, write_pos, read_pos, samples)
       IN /\ buffer' = w.buffer
          /\ write_pos' = w.write_pos
          /\ producer' = [pc |-> "idle", samples |-> samples, ret |-> w.ret]
          /\ accepted' = accepted \o SubSeq(samples, 1, w.ret)
    /\ offered' = offered + n
    /\ UNCHANGED <<read_pos, consumer, returned, outside_ring>>

\* a whole read call, no write call in progress
Read(len) ==
    /\ producer.pc = "idle" /\ consumer.pc = "idle"
    /\ LET r == read(buffer, read_pos, write_pos, len)
       IN /\ read_pos' = r.read_pos
          /\ consumer' = [pc |-> "idle", len |-> len, out |-> r.out, ret |-> r.ret]
          /\ returned' = returned \o r.out
    /\ UNCHANGED <<buffer, write_pos, producer, offered, accepted, outside_ring>>

\* write, statement by statement, for a producer thread running beside a
\* consumer thread.  The call starts with write_pos.load(Acquire).
ProducerBegin(n) ==
    /\ producer.pc = "idle"
    /\ offered + n <= MaxOffered
    /\ producer' = [pc |-> "load_read", samples |-> next_samples(n),
                    write_pos |-> write_pos]
    /\ offered' = offered + n
    /\ UNCHANGED <<buffer, write_pos, read_pos, consumer, accepted, returned,
                   outside_ring>>

\* read_pos.load(Acquire), then available and to_write
ProducerLoadRead ==
    /\ producer.pc = "load_read"
    /\ producer' =
        [pc |-> "copy", samples |-> producer.samples,
         write_pos |-> producer.write_pos, read_pos |-> read_pos,
         to_write |-> min(Len(producer.samples),
                          available_write_internal(producer.write_pos, read_pos)),
         i |-> 0]
    /\ UNCHANGED <<buffer, write_pos, read_pos, consumer, offered, accepted,
                   returned, outside_ring>>

\* one pass of the write loop
ProducerCopy ==
    /\ producer.pc = "copy"
    /\ producer.i < producer.to_write
    /\ buffer' = store_sample(buffer, producer.write_pos, producer.samples, producer.i)
    /\ producer' = [producer EXCEPT !.i = producer.i + 1]
    /\ UNCHANGED <<write_pos, read_pos, consumer, offered, accepted, returned,
                   outside_ring>>

\* write_pos.store(write_pos + to_write, Release), and the return
ProducerStore ==
    /\ producer.pc = "copy"
    /\ producer.i >= producer.to_write
    /\ write_pos' = producer.write_pos + producer.to_write
    /\ accepted' = accepted \o SubSeq(producer.samples, 1, producer.to_write)
    /\ producer' = [pc |-> "idle", samples |-> producer.samples,
                    ret |-> producer.to_write]
    /\ UNCHANGED <<buffer, read_pos, consumer, offered, returned, outside_ring>>

\* read, statement by statement.  The call starts with read_pos.load(Acquire).
ConsumerBegin(len) ==
    /\ consumer.pc = "idle"
    /\ consumer' = [pc |-> "load_write", len |-> len, read_pos |-> read_pos]
    /\ UNCHANGED <<buffer, write_pos, read_pos, producer, offered, accepted,
                   returned, outside_ring>>

\* write_pos.load(Acquire), then available and to_read
ConsumerLoadWrite ==
    /\ consumer.pc = "load_write"
    /\ consumer' =
        [pc |-> "copy", len |-> consumer.len,
         read_pos |-> consumer.read_pos, write_pos |-> write_pos,
         to_read |-> min(consumer.len,
                         available_read_internal(consumer.read_pos, write_pos)),
         i |-> 0, out |-> << >>]
    /\ UNCHANGED <<buffer, write_pos, read_pos, producer, offered, accepted,
                   returned, outside_ring>>

\* one pass of the read loop
ConsumerCopy ==
    /\ consumer.pc = "copy"
    /\ consumer.i < consumer.to_read
    /\ consumer' =
        [consumer EXCEPT
            !.out = Append(consumer.out,
                           load_sample(buffer, consumer.read_pos, consumer.i)),
            !.i = consumer.i + 1]
    /\ UNCHANGED <<buffer, write_pos, read_pos, producer, offered, accepted,
                   returned, outside_ring>>

\* read_pos.store(read_pos + to_read, Release), and the return
ConsumerStore ==
    /\ consumer.pc = "copy"
    /\ consumer.i >= consumer.to_read
    /\ read_pos' = consumer.read_pos + consumer.to_read
    /\ returned' = returned \o consumer.out
    /\ consumer' = [pc |-> "idle", len |-> consumer.len, out |-> consumer.out,
                    ret |-> consumer.to_read]
    /\ UNCHANGED <<buffer, write_pos, producer, offered, accepted, outside_ring>>

(* ------------------------- streams: RingBuffer ------------------------- *)

\* RingBuffer::with_capacity: the capacity is kept as it is given
RingBuffer_with_capacity(cap) ==
    [buffer |-> [s \in 0..(cap - 1) |-> 0],
     capacity |-> cap,
     write_pos |-> 0,
     read_pos |-> 0]

\* mutant of RingBuffer_available_write: no slot is kept free between the cursors
RingBuffer_available_write_full(rb) ==
    IF rb.write_pos >= rb.read_pos
    THEN rb.capacity - (rb.write_pos - rb.read_pos)
    ELSE rb.read_pos - rb.write_pos

RingBuffer_available_write(rb) ==
    IF rb.write_pos >= rb.read_pos
    THEN rb.capacity - (rb.write_pos - rb.read_pos) - 1
    ELSE rb.read_pos - rb.write_pos - 1

RingBuffer_available_read(rb) ==
    IF rb.read_pos > rb.write_pos
    THEN rb.capacity - (rb.read_pos - rb.write_pos)
    ELSE rb.write_pos - rb.read_pos

\* the write loop of RingBuffer::write from index i up to to_write
RECURSIVE RingBuffer_store(_, _, _, _)
RingBuffer_store(rb, samples, i, to_write) ==
    IF i >= to_write THEN rb.buffer
    ELSE [RingBuffer_store(rb, samples, i + 1, to_write)
             EXCEPT ![(rb.write_pos + i) % rb.capacity] = samples[i + 1]]

\* RingBuffer::write: the buffer after the call and Ok(to_write)
RingBuffer_write(rb, samples) ==
    LET available == RingBuffer_available_write(rb)
        to_write == min(Len(samples), available)
    IN [rb |-> [rb EXCEPT !.buffer = RingBuffer_store(rb, samples, 0, to_write),
                          !.write_pos = (rb.write_pos + to_write) % rb.capacity],
        ret |-> to_write]

\* RingBuffer::read: out is the part of the caller's buffer the call has filled
RingBuffer_read(rb, len) ==
    LET available == RingBuffer_available_read(rb)
        to_read == min(len, available)
    IN [rb |-> [rb EXCEPT !.read_pos = (rb.read_pos + to_read) % rb.capacity],
        out |-> [i \in 1..to_read |->
                    rb.buffer[(rb.read_pos + (i - 1)) % rb.capacity]],
        ret |-> to_read]

\* the same write call on the LockFreeRingBuffer and on the RingBuffer
BothWrite(n) ==
    /\ producer.pc = "idle" /\ consumer.pc = "idle"
    /\ offered + n <= MaxOffered
    /\ LET samples == next_samples(n)
           w == write(buffer, write_pos, read_pos, samples)
           rw == RingBuffer_write(ring_buffer, samples)
       IN /\ buffer' = w.buffer
          /\ write_pos' = w.write_pos
          /\ producer' = [pc |-> "idle", samples |-> samples, ret |-> w.ret]
          /\ accepted' = accepted \o SubSeq(samples, 1, w.ret)
          /\ ring_buffer' = rw.rb
          /\ last' = [op |-> "write", samples |-> samples,
                      lock_free |-> [ret |-> w.ret],
                      ring |-> [ret |-> rw.ret]]
    /\ offered' = offered + n
    /\ UNCHANGED <<read_pos, consumer, returned, resampler>>
    /\ UNCHANGED <<channels, routing, buses, soloed_channel_id,
                   sync_vars, effects_vars, engine_vars>>

\* the same read call on the LockFreeRingBuffer and on the RingBuffer
BothRead(len) ==
    /\ producer.pc = "idle" /\ consumer.pc = "idle"
    /\ LET r == read(buffer, read_pos, write_pos, len)
           rr == RingBuffer_read(ring_buffer, len)
       IN /\ read_pos' = r.read_pos
          /\ consumer' = [pc |-> "idle", len |-> len, out |-> r.out, ret |-> r.ret]
          /\ returned' = returned \o r.out
          /\ ring_buffer' = rr.rb
          /\ last' = [op |-> "read", len |-> len,
                      lock_free |-> [ret |-> r.ret, out |-> r.out],
                      ring |-> [ret |-> rr.ret, out |-> rr.out]]
    /\ UNCHANGED <<buffer, write_pos, producer, offered, accepted, resampler>>
    /\ UNCHANGED <<channels, routing, buses, soloed_channel_id,
                   sync_vars, effects_vars, engine_vars>>

(* -------------------------- streams: Resampler ------------------------- *)

\* Resampler::new.  ratio is target_rate / source_rate, kept as the pair of the
\* two rates; position counts input frames in units of 1 / target_rate, so that
\* one step of ratio.recip() adds source_rate to it.
Resampler_new(source_rate, target_rate, channel_count) ==
    IF source_rate = target_rate
    THEN [channels |-> channel_count, ratio |-> [num |-> 1, den |-> 1], position |-> 0]
    ELSE [channels |-> channel_count,
          ratio |-> [num |-> target_rate, den |-> source_rate],
          position |-> 0]

\* input[idx0] + frac * (input[idx1] - input[idx0]) for the frame at position
interpolate(res, input, position, ch) ==
    LET input_frames == Len(input) \div res.channels
        i0 == position \div res.ratio.num
        i1 == min(i0 + 1, input_frames - 1)
        in0 == input[i0 * res.channels + ch + 1]
        in1 == input[i1 * res.channels + ch + 1]
    IN in0 + ((position % res.ratio.num) * (in1 - in0)) \div res.ratio.num

\* the while loop of Resampler::process from output_frame on
RECURSIVE resample_loop(_, _, _, _, _)
resample_loop(res, input, output, position, output_frame) ==
    LET input_frames == Len(input) \div res.channels
        max_output_frames == Len(output) \div res.channels
    IN IF position < input_frames * res.ratio.num /\ output_frame < max_output_frames
       THEN resample_loop(res, input,
                [k \in 1..Len(output) |->
                    IF (k - 1) \div res.channels = output_frame
                    THEN interpolate(res, input, position, (k - 1) % res.channels)
                    ELSE output[k]],
                position + res.ratio.den, output_frame + 1)
       ELSE [output |-> output, position |-> position, output_frame |-> output_frame]

\* Resampler::process: the resampler and the output buffer after the call, and n
\* of Ok(n)
Resampler_process(res, input, output) ==
    IF res.ratio.num = res.ratio.den
    THEN LET to_copy == min(Len(input), Len(output))
         IN [res |-> res,
             output |-> [k \in 1..Len(output) |->
                            IF k <= to_copy THEN input[k] ELSE output[k]],
             n |-> to_copy]
    ELSE LET input_frames == Len(input) \div res.channels
             run == resample_loop(res, input, output, res.position, 0)
             wrapped == IF run.position >= input_frames * res.ratio.num
                        THEN run.position - input_frames * res.ratio.num
                        ELSE run.position
         IN [res |-> [res EXCEPT !.position = wrapped],
             output |-> run.output,
             n |-> run.output_frame * res.channels]

\* vec![0.0; (buffer.len() as f64 * resampler.ratio()) as usize + channels]
resampled_buffer(res, len, channel_count) ==
    [k \in 1..((len * res.ratio.num) \div res.ratio.den + channel_count) |-> 0]

\* AudioStream::create_input_stream: a resampler only when the device's rate is not the target
AudioStream_create_input_stream(source_rate, target_rate, channel_count) ==
    /\ resampler = None
    /\ resampler' = IF source_rate # target_rate
                    THEN Some(Resampler_new(source_rate, target_rate, channel_count))
                    ELSE None
    /\ last' = [op |-> "create_input_stream", source_rate |-> source_rate,
                target_rate |-> target_rate, channels |-> channel_count]
    /\ UNCHANGED <<ring_buffer>>
    /\ UNCHANGED <<channels, routing, buses, soloed_channel_id,
                   sync_vars, ring_vars, effects_vars, engine_vars>>

\* the data callback of the input stream, given whole frames: sent is the
\* buffer given to try_send
InputStreamCallback(data) ==
    /\ last.op \in {"create_input_stream", "input_callback"}
    /\ Len(data) % last.channels = 0
    /\ IF resampler # None
       THEN LET res == the(resampler)
                resampled == resampled_buffer(res, Len(data), last.channels)
                done == Resampler_process(res, data, resampled)
            IN /\ resampler' = Some(done.res)
               /\ last' = [op |-> "input_callback", data |-> data,
                           channels |-> last.channels, resampling |-> TRUE,
                           n |-> done.n, sent |-> done.output]
       ELSE /\ resampler' = resampler
            /\ last' = [op |-> "input_callback", data |-> data,
                        channels |-> last.channels, resampling |-> FALSE,
                        n |-> Len(data), sent |-> data]
    /\ UNCHANGED <<ring_buffer>>
    /\ UNCHANGED <<channels, routing, buses, soloed_channel_id,
                   sync_vars, ring_vars, effects_vars, engine_vars>>

StreamInit ==
    /\ resampler = None
    /\ ring_buffer = RingBuffer_with_capacity(capacity)

(* ------------------------------ mixer mutex ---------------------------- *)

\* a lock that is handed out whoever holds it
lock_granted_always(holder) == TRUE

\* Mutex::lock returns once no other thread holds the guard
lock_granted(holder) == holder = "free"

SyncInit ==
    /\ mixer_lock = "free"
    /\ command = [pc |-> "idle"]
    /\ worker = [pc |-> "idle"]

\* a command whose body is one call on the guard: state.mixer.lock()?.op(..),
\* the guard dropped at the end of the statement
CommandAddChannel(id) ==
    /\ command.pc = "idle"
    /\ lock_granted(mixer_lock)
    /\ AddChannel(id)

CommandSetRoute(from, to, enabled) ==
    /\ command.pc = "idle"
    /\ lock_granted(mixer_lock)
    /\ SetRoute(from, to, enabled)

\* the set_channel_buses command: state.mixer.lock()
CommandLock(channel_id, bus_ids) ==
    /\ command.pc = "idle"
    /\ lock_granted(mixer_lock)
    /\ mixer_lock' = "command"
    /\ command' = [pc |-> "clear", id |-> channel_id, bus_ids |-> bus_ids,
                   before |-> routing,
                   after |-> set_channel_buses(routing, buses, channel_id, bus_ids)]
    /\ UNCHANGED <<mixer_vars, worker, ring_vars, effects_vars, stream_vars, engine_vars>>

\* MixerEngine::set_channel_buses, first loop: every bus route disabled
CommandClear ==
    /\ command.pc = "clear"
    /\ routing' = set_routes(routing, command.id,
                             {buses[i].id : i \in 1..Len(buses)}, FALSE)
    /\ command' = [command EXCEPT !.pc = "enable"]
    /\ UNCHANGED <<channels, buses, soloed_channel_id, last, mixer_lock, worker,
                   ring_vars, effects_vars, stream_vars, engine_vars>>

\* MixerEngine::set_channel_buses, second loop: the selected buses enabled
CommandEnable ==
    /\ command.pc = "enable"
    /\ routing' = set_routes(routing, command.id, command.bus_ids, TRUE)
    /\ last' = [op |-> "set_channel_buses", id |-> command.id,
                bus_ids |-> command.bus_ids]
    /\ command' = [command EXCEPT !.pc = "unlock"]
    /\ UNCHANGED <<channels, buses, soloed_channel_id, mixer_lock, worker, ring_vars, effects_vars, stream_vars, engine_vars>>

\* the guard is dropped when the command returns
CommandUnlock ==
    /\ command.pc = "unlock"
    /\ mixer_lock' = "free"
    /\ command' = [pc |-> "idle"]
    /\ UNCHANGED <<mixer_vars, worker, ring_vars, effects_vars, stream_vars, engine_vars>>

\* AudioEngine::process_audio: self.mixer.lock()
WorkerLock ==
    /\ worker.pc = "idle"
    /\ lock_granted(mixer_lock)
    /\ mixer_lock' = "worker"
    /\ worker' = [pc |-> "locked"]
    /\ UNCHANGED <<mixer_vars, command, ring_vars, effects_vars, stream_vars, engine_vars>>

\* mixer.process_with_effects(&channel_audio, &mut HashMap::new()), on the guard
WorkerProcess(inputs, order) ==
    /\ worker.pc = "locked"
    /\ last' = [op |-> "process", inputs |-> inputs,
                result |-> process_with_effects(channels, routing, buses, inputs, order)]
    /\ worker' = [pc |-> "processed", routing |-> routing, command |-> command]
    /\ UNCHANGED <<channels, routing, buses, soloed_channel_id, mixer_lock, command,
                   ring_vars, effects_vars, stream_vars, engine_vars>>

\* the guard is dropped at the end of the block
WorkerUnlock ==
    /\ worker.pc = "processed"
    /\ mixer_lock' = "free"
    /\ worker' = [pc |-> "idle"]
    /\ UNCHANGED <<mixer_vars, command, ring_vars, effects_vars, stream_vars, engine_vars>>

(* ----------------------------- audio engine --------------------------- *)

\* AudioEngine::new
AudioEngine_new == [input_streams |-> << >>, output_streams |-> << >>, running |-> FALSE]

\* an ActiveStream built in the command in progress: its binding list, and the
\* number of buffers in the channel of its AudioStream; prior is set on the
\* streams a refresh finds when it begins
ActiveStream_new(target_channels) ==
    [target_channels |-> target_channels, queue |-> 0, prior |-> FALSE]

\* HashMap::insert(device_id, active_stream): a stream already stored under the
\* key is replaced, and dropped
insert_stream(streams, device_id, active_stream) ==
    [d \in DOMAIN streams \cup {device_id} |->
        IF d = device_id THEN active_stream ELSE streams[d]]

\* the first loop of start_channel_streams: channel ids grouped by the
\* input_device field as it is written, None being a key of its own
group_channels(chs) ==
    [key \in {chs[c].input_device : c \in DOMAIN chs} |->
        {c \in DOMAIN chs : chs[c].input_device = key}]

\* the first loop of start_bus_streams: bus ids grouped by output_device
group_buses(bs) ==
    [key \in {bs[i].output_device : i \in 1..Len(bs)} |->
        {bs[i].id : i \in {j \in 1..Len(bs) : bs[j].output_device = key}}]

\* match device_id_opt { Some(id) => id, None => the default, if there is one }
resolve(device_id_opt, default_device_id) ==
    IF device_id_opt # None THEN device_id_opt ELSE default_device_id

\* a stop that leaves the output streams running
stop_all_streams_inputs_only(engine) ==
    [engine EXCEPT !.input_streams = << >>, !.running = FALSE]

\* AudioEngine::stop_all_streams: every key of both maps is removed, the
\* removed stream dropped at the end of its if-let
stop_all_streams(engine) ==
    [engine EXCEPT !.input_streams = << >>, !.output_streams = << >>,
                   !.running = FALSE]

\* a guard that is kept while the streams are built
guard_after_grouping_kept(holder) == holder

\* drop(mixer), after the grouping loop
guard_after_grouping(holder) == "free"

\* no command in progress: the locals of the last one are gone; found are the
\* devices a refresh had streams for when it began
CallIdle ==
    [pc |-> "idle", op |-> "none", ret |-> "none", engine |-> AudioEngine_new,
     seen |-> << >>, device_channels |-> << >>, device_buses |-> << >>,
     remaining |-> << >>, default_device_id |-> None, channel_streams |-> "none",
     found |-> {}]

AudioIdle == [pc |-> "idle", channel_audio |-> << >>, pending |-> {}, device |-> None]

EngineInit ==
    /\ audio_engine = None
    /\ call = CallIdle
    /\ audio = AudioIdle

\* the guard on state.audio_engine is free: no refresh holds it
engine_guard_free == call.pc = "idle" \/ call.op = "start_audio"

\* the start_audio command: AudioEngine::new, a local of the command
StartAudioBegin ==
    /\ call.pc = "idle"
    /\ call' = [CallIdle EXCEPT !.pc = "start_channel_streams", !.op = "start_audio"]
    /\ UNCHANGED <<mixer_vars, sync_vars, ring_vars, effects_vars, stream_vars, audio_engine, audio>>

\* the refresh_audio_streams command: state.audio_engine.lock(), then
\* refresh_streams on the engine behind the guard
RefreshBegin ==
    /\ call.pc = "idle"
    /\ audio.pc = "idle"
    /\ audio_engine # None
    /\ call' = [CallIdle EXCEPT
                  !.pc = "stop_all_streams", !.op = "refresh",
                  !.found = DOMAIN the(audio_engine).input_streams
                                \cup DOMAIN the(audio_engine).output_streams,
                  !.engine =
                      LET engine == the(audio_engine)
                      IN [engine EXCEPT
                            !.input_streams =
                                [d \in DOMAIN engine.input_streams |->
                                    [engine.input_streams[d] EXCEPT !.prior = TRUE]],
                            !.output_streams =
                                [d \in DOMAIN engine.output_streams |->
                                    [engine.output_streams[d] EXCEPT !.prior = TRUE]]]]
    /\ UNCHANGED <<mixer_vars, sync_vars, ring_vars, effects_vars, stream_vars, audio_engine, audio>>

\* refresh_audio_streams when no engine is stored: an error, nothing changes
RefreshWithoutEngine ==
    /\ call.pc = "idle"
    /\ audio.pc = "idle"
    /\ audio_engine = None
    /\ call' = [CallIdle EXCEPT !.op = "refresh", !.ret = "Err"]
    /\ UNCHANGED <<mixer_vars, sync_vars, ring_vars, effects_vars, stream_vars, audio_engine, audio>>

\* refresh_streams: self.stop_all_streams()?
StopAllStreams ==
    /\ call.pc = "stop_all_streams"
    /\ call' = [call EXCEPT !.pc = "start_channel_streams",
                            !.engine = stop_all_streams(call.engine)]
    /\ UNCHANGED <<mixer_vars, sync_vars, ring_vars, effects_vars, stream_vars, audio_engine, audio>>

\* start_channel_streams: self.mixer.lock(), and the grouping loop on the guard
ChannelStreamsLock ==
    /\ call.pc = "start_channel_streams"
    /\ lock_granted(mixer_lock)
    /\ mixer_lock' = "engine"
    /\ call' = [call EXCEPT
                  !.pc = "channels_grouped",
                  !.seen = [c \in DOMAIN channels |-> channels[c].input_device],
                  !.device_channels = group_channels(channels)]
    /\ UNCHANGED <<mixer_vars, command, worker, ring_vars, effects_vars, stream_vars, audio_engine, audio>>

\* drop(mixer); enumerator.default_input_device().ok(); the second loop then
\* visits the groups in the order the HashMap yields them
ChannelStreamsUnlock(default_device_id, order) ==
    /\ call.pc = "channels_grouped"
    /\ order \in Orders(DOMAIN call.device_channels)
    /\ mixer_lock' = guard_after_grouping(mixer_lock)
    /\ call' = [call EXCEPT !.pc = "input_loop", !.remaining = order,
                            !.default_device_id = default_device_id]
    /\ UNCHANGED <<mixer_vars, command, worker, ring_vars, effects_vars, stream_vars, audio_engine, audio>>

\* one turn of `for (device_id_opt, channel_ids) in device_channels`: listed is
\* the result of enumerator.input_devices(), built whether
\* AudioStream::create_input_stream returns a stream
CreateInputStream(listed, built) ==
    /\ call.pc = "input_loop"
    /\ call.remaining # << >>
    /\ LET device_id_opt == Head(call.remaining)
           channel_ids == call.device_channels[device_id_opt]
           device_id == resolve(device_id_opt, call.default_device_id)
       IN IF device_id = None
          THEN \* no default input device: continue
               call' = [call EXCEPT !.remaining = Tail(call.remaining)]
          ELSE IF ~listed.ok \/ the(device_id) \notin listed.devices \/ ~built
          THEN \* the ? operator: the error is returned as it is
               call' = [call EXCEPT !.pc = "return", !.ret = "Err",
                                    !.channel_streams = "Err"]
          ELSE call' = [call EXCEPT
                          !.remaining = Tail(call.remaining),
                          !.engine.input_streams =
                              insert_stream(call.engine.input_streams, the(device_id),
                                            ActiveStream_new(channel_ids))]
    /\ UNCHANGED <<mixer_vars, sync_vars, ring_vars, effects_vars, stream_vars, audio_engine, audio>>

\* the loop is over: self.running = true; Ok(())
ChannelStreamsOk ==
    /\ call.pc = "input_loop"
    /\ call.remaining = << >>
    /\ call' = [call EXCEPT
                  !.engine.running = TRUE,
                  !.channel_streams = "Ok",
                  !.pc = IF call.op = "refresh" THEN "start_bus_streams" ELSE "return",
                  !.ret = IF call.op = "refresh" THEN call.ret ELSE "Ok"]
    /\ UNCHANGED <<mixer_vars, sync_vars, ring_vars, effects_vars, stream_vars, audio_engine, audio>>

\* start_bus_streams: self.mixer.lock(), and the grouping loop on the guard
BusStreamsLock ==
    /\ call.pc = "start_bus_streams"
    /\ lock_granted(mixer_lock)
    /\ mixer_lock' = "engine"
    /\ call' = [call EXCEPT !.pc = "buses_grouped",
                            !.device_buses = group_buses(buses)]
    /\ UNCHANGED <<mixer_vars, command, worker, ring_vars, effects_vars, stream_vars, audio_engine, audio>>

\* drop(mixer); the second loop visits the groups in the order of the HashMap
BusStreamsUnlock(order) ==
    /\ call.pc = "buses_grouped"
    /\ order \in Orders(DOMAIN call.device_buses)
    /\ mixer_lock' = guard_after_grouping(mixer_lock)
    /\ call' = [call EXCEPT !.pc = "output_loop", !.remaining = order]
    /\ UNCHANGED <<mixer_vars, command, worker, ring_vars, effects_vars, stream_vars, audio_engine, audio>>

\* one turn of `for (device_id_opt, bus_ids) in device_buses`
CreateOutputStream(listed, built) ==
    /\ call.pc = "output_loop"
    /\ call.remaining # << >>
    /\ LET device_id_opt == Head(call.remaining)
           bus_ids == call.device_buses[device_id_opt]
       IN IF device_id_opt = None
          THEN \* buses with no output device: continue
               call' = [call EXCEPT !.remaining = Tail(call.remaining)]
          ELSE IF ~listed.ok \/ the(device_id_opt) \notin listed.devices \/ ~built
          THEN call' = [call EXCEPT !.pc = "return", !.ret = "Err"]
          ELSE call' = [call EXCEPT
                          !.remaining = Tail(call.remaining),
                          !.engine.output_streams =
                              insert_stream(call.engine.output_streams,
                                            the(device_id_opt),
                                            ActiveStream_new(bus_ids))]
    /\ UNCHANGED <<mixer_vars, sync_vars, ring_vars, effects_vars, stream_vars, audio_engine, audio>>

\* the loop is over: Ok(())
BusStreamsOk ==
    /\ call.pc = "output_loop"
    /\ call.remaining = << >>
    /\ call' = [call EXCEPT !.pc = "return", !.ret = "Ok"]
    /\ UNCHANGED <<mixer_vars, sync_vars, ring_vars, effects_vars, stream_vars, audio_engine, audio>>

\* start_audio after Ok: *state.audio_engine.lock() = Some(engine); the engine
\* stored before is dropped with its streams
StartAudioStore ==
    /\ call.pc = "return"
    /\ call.op = "start_audio"
    /\ call.ret = "Ok"
    /\ audio.pc = "idle"
    /\ audio_engine' = Some(call.engine)
    /\ call' = [CallIdle EXCEPT !.op = call.op, !.ret = call.ret]
    /\ UNCHANGED <<mixer_vars, sync_vars, ring_vars, effects_vars, stream_vars, audio>>

\* start_audio after Err: the local engine is dropped with the streams it
\* holds, the stored engine stays
StartAudioFail ==
    /\ call.pc = "return"
    /\ call.op = "start_audio"
    /\ call.ret = "Err"
    /\ call' = [CallIdle EXCEPT !.op = call.op, !.ret = call.ret]
    /\ UNCHANGED <<mixer_vars, sync_vars, ring_vars, effects_vars, stream_vars, audio_engine, audio>>

\* refresh_audio_streams returns, Ok or Err: the guard on the engine is dropped,
\* the engine stays as refresh_streams left it
RefreshReturn ==
    /\ call.pc = "return"
    /\ call.op = "refresh"
    /\ audio_engine' = Some(call.engine)
    /\ call' = [CallIdle EXCEPT !.op = call.op, !.ret = call.ret]
    /\ UNCHANGED <<mixer_vars, sync_vars, ring_vars, effects_vars, stream_vars, audio>>

\* the stop_audio command: *audio_engine = None; Drop runs stop_all_streams
StopAudio ==
    /\ call.pc = "idle"
    /\ audio.pc = "idle"
    /\ audio_engine' = None
    /\ call' = [CallIdle EXCEPT !.op = "stop_audio", !.ret = "Ok"]
    /\ UNCHANGED <<mixer_vars, sync_vars, ring_vars, effects_vars, stream_vars, audio>>

\* the set_channel_input_device command
SetChannelInputDevice(id, device_id) ==
    /\ lock_granted(mixer_lock)
    /\ IF id \in DOMAIN channels
       THEN /\ channels' = [channels EXCEPT ![id].input_device = device_id]
            /\ last' = [op |-> "set_channel_input_device", id |-> id, ret |-> "Ok"]
            /\ UNCHANGED <<routing, buses, soloed_channel_id, outside_mixer>>
       ELSE /\ last' = [op |-> "set_channel_input_device", id |-> id,
                        ret |-> "NotFound"]
            /\ UNCHANGED <<channels, routing, buses, soloed_channel_id, outside_mixer>>

\* the add_channel, remove_channel, add_bus, remove_bus and load_config
\* commands: one call on the guard of state.mixer, no call on the audio engine
CommandRemoveChannel(id) ==
    /\ lock_granted(mixer_lock)
    /\ RemoveChannel(id)

CommandAddBus ==
    /\ lock_granted(mixer_lock)
    /\ AddBus

CommandRemoveBus ==
    /\ lock_granted(mixer_lock)
    /\ RemoveBus

CommandLoadConfig(config) ==
    /\ lock_granted(mixer_lock)
    /\ LoadConfig(config)

\* validate_channel_id: an id is refused when it is empty; the other ids of the
\* model are short and alphanumeric
validate_channel_id(id) == id # ""

\* the toggle_solo command: the flag of the channel is read, and its negation
\* is handed to set_channel_solo_exclusive and returned
CommandToggleSolo(channel_id) ==
    /\ command.pc = "idle"
    /\ lock_granted(mixer_lock)
    /\ IF ~validate_channel_id(channel_id)
       THEN /\ last' = [op |-> "toggle_solo_command", id |-> channel_id,
                        ret |-> "Invalid"]
            /\ UNCHANGED <<channels, routing, buses, soloed_channel_id, outside_mixer>>
       ELSE IF channel_id \notin DOMAIN channels
       THEN /\ last' = [op |-> "toggle_solo_command", id |-> channel_id,
                        ret |-> "NotFound"]
            /\ UNCHANGED <<channels, routing, buses, soloed_channel_id, outside_mixer>>
       ELSE LET current_solo == channels[channel_id].solo
                new_solo_state == ~current_solo
            IN /\ IF new_solo_state
                  THEN /\ channels' = solo_only(channels, channel_id)
                       /\ soloed_channel_id' = Some(channel_id)
                  ELSE /\ soloed_channel_id' = clear_record(soloed_channel_id, channel_id)
                       /\ channels' = unsolo(channels, channel_id)
               /\ last' = [op |-> "toggle_solo_command", id |-> channel_id,
                           ret |-> "Ok", value |-> new_solo_state,
                           \* what the command found
                           solo_before |-> {c \in DOMAIN channels : channels[c].solo},
                           record_before |-> soloed_channel_id]
               /\ UNCHANGED <<routing, buses, outside_mixer>>

(* ----------------------------- process_audio --------------------------- *)

\* the stream's capture callback: sender.try_send(buffer), the buffer is lost
\* when the channel is full
try_send(queue) == IF queue < QueueCapacity THEN queue + 1 ELSE queue

\* receiver.try_recv(): one buffer is taken when there is one
try_recv(queue) == IF queue > 0 THEN queue - 1 ELSE queue

RECURSIVE sum_of_squares(_)
sum_of_squares(audio_buffer) ==
    IF audio_buffer = << >> THEN 0
    ELSE Head(audio_buffer) * Head(audio_buffer) + sum_of_squares(Tail(audio_buffer))

\* f32::sqrt, rounded down to the next thousandth
sqrt(x) == CHOOSE r \in 0..(2 * One) : r * r <= x /\ (r + 1) * (r + 1) > x

\* (audio_buffer.iter().map(|&s| s * s).sum::<f32>() / audio_buffer.len() as f32).sqrt()
rms(audio_buffer) == sqrt(sum_of_squares(audio_buffer) \div Len(audio_buffer))

\* the capture callback of the input stream on device d
InputCallback(d) ==
    /\ engine_guard_free
    /\ audio_engine # None
    /\ d \in DOMAIN the(audio_engine).input_streams
    /\ audio_engine' = Some([the(audio_engine) EXCEPT
                                !.input_streams[d].queue = try_send(@)])
    /\ UNCHANGED <<mixer_vars, sync_vars, ring_vars, effects_vars, stream_vars, call, audio>>

\* the playback callback of the output stream on device d
PlaybackCallback(d) ==
    /\ engine_guard_free
    /\ audio_engine # None
    /\ d \in DOMAIN the(audio_engine).output_streams
    /\ audio_engine' = Some([the(audio_engine) EXCEPT
                                !.output_streams[d].queue = try_recv(@)])
    /\ UNCHANGED <<mixer_vars, sync_vars, ring_vars, effects_vars, stream_vars, call, audio>>

\* process_audio, the first loop: receive() on every input stream; a stream with
\* an empty channel is passed over, the buffer of another goes to each channel
\* of its binding list.  With nothing received the call returns
AudioReceive(audio_buffer) ==
    /\ audio.pc = "idle"
    /\ engine_guard_free
    /\ audio_engine # None
    /\ the(audio_engine).running
    /\ LET engine == the(audio_engine)
           ready == {d \in DOMAIN engine.input_streams :
                        engine.input_streams[d].queue > 0}
           targets == UNION {engine.input_streams[d].target_channels : d \in ready}
       IN /\ audio_engine' = Some([engine EXCEPT
                                     !.input_streams =
                                         [d \in DOMAIN engine.input_streams |->
                                             [engine.input_streams[d] EXCEPT
                                                 !.queue = try_recv(@)]]])
          /\ audio' = IF targets = {}
                      THEN AudioIdle
                      ELSE [AudioIdle EXCEPT
                              !.pc = "lock",
                              !.channel_audio = [c \in targets |-> audio_buffer]]
    /\ UNCHANGED <<mixer_vars, sync_vars, ring_vars, effects_vars, stream_vars, call>>

\* let mut mixer = self.mixer.lock()
AudioLock ==
    /\ audio.pc = "lock"
    /\ lock_granted(mixer_lock)
    /\ mixer_lock' = "audio"
    /\ audio' = [audio EXCEPT !.pc = "mix"]
    /\ UNCHANGED <<mixer_vars, command, worker, ring_vars, effects_vars, stream_vars, audio_engine, call>>

\* the devices of device_outputs: the output device of each bus the mix
\* returned a buffer for
device_outputs(bs, outputs) ==
    UNION {bs[i].output_device : i \in {j \in 1..Len(bs) : bs[j].id \in DOMAIN outputs}}

\* on the guard: the level meters, process_with_effects, and the buffers of
\* the buses summed by output device
AudioMix(order) ==
    /\ audio.pc = "mix"
    /\ order \in Orders(DOMAIN audio.channel_audio)
    /\ LET metered == [c \in DOMAIN channels |->
                          IF c \in DOMAIN audio.channel_audio
                          THEN [channels[c] EXCEPT
                                  !.level = AudioLevel_update(
                                                @, rms(audio.channel_audio[c]))]
                          ELSE channels[c]]
           result == process_with_effects(metered, routing, buses,
                                          audio.channel_audio, order)
       IN /\ channels' = metered
          /\ last' = [op |-> "process", inputs |-> audio.channel_audio,
                      result |-> result]
          /\ audio' = [audio EXCEPT !.pc = "send",
                                    !.pending = device_outputs(buses, result.outputs)]
    /\ UNCHANGED <<routing, buses, soloed_channel_id, sync_vars, ring_vars,
                   effects_vars, stream_vars, audio_engine, call>>

\* one turn of `for (device_id, mixed_audio) in device_outputs`: without a
\* stream for the device the buffer is dropped; otherwise Sender::send, which
\* returns once the buffer is in the channel and parks the thread while the
\* channel is full
AudioSend(device_id) ==
    /\ audio.pc = "send"
    /\ device_id \in audio.pending
    /\ LET engine == the(audio_engine)
       IN IF device_id \notin DOMAIN engine.output_streams
          THEN /\ audio' = [audio EXCEPT !.pending = @ \ {device_id}]
               /\ UNCHANGED audio_engine
          ELSE IF engine.output_streams[device_id].queue < QueueCapacity
          THEN /\ audio_engine' = Some([engine EXCEPT
                                          !.output_streams[device_id].queue = @ + 1])
               /\ audio' = [audio EXCEPT !.pending = @ \ {device_id}]
          ELSE /\ audio' = [audio EXCEPT !.pc = "parked", !.device = Some(device_id)]
               /\ UNCHANGED audio_engine
    /\ UNCHANGED <<mixer_vars, sync_vars, ring_vars, effects_vars, stream_vars, call>>

\* the playback callback has taken a buffer: the parked send goes through
AudioWake ==
    /\ audio.pc = "parked"
    /\ LET engine == the(audio_engine)
           device_id == the(audio.device)
       IN /\ engine.output_streams[device_id].queue < QueueCapacity
          /\ audio_engine' = Some([engine EXCEPT
                                     !.output_streams[device_id].queue = @ + 1])
          /\ audio' = [audio EXCEPT !.pc = "send", !.device = None,
                                    !.pending = @ \ {device_id}]
    /\ UNCHANGED <<mixer_vars, sync_vars, ring_vars, effects_vars, stream_vars, call>>

\* the end of the `if !channel_audio.is_empty()` block: the guard goes out of
\* scope, Ok(())
AudioUnlock ==
    /\ audio.pc = "send"
    /\ audio.pending = {}
    /\ mixer_lock' = "free"
    /\ audio' = AudioIdle
    /\ UNCHANGED <<mixer_vars, command, worker, ring_vars, effects_vars, stream_vars, audio_engine, call>>

\* the state after construction
Init == MixerInit /\ SyncInit /\ RingInit /\ EffectsInit /\ StreamInit /\ EngineInit

(* ------------------------------- inputs -------------------------------- *)

ChannelIndex(c) == CHOOSE i \in 1..Len(ChannelNames) : ChannelNames[i] = c

RECURSIVE Pow10(_)
Pow10(n) == IF n = 0 THEN 1 ELSE 10 * Pow10(n - 1)

\* the buffer of length n fed to channel c: sample k is k * 10^(index of c - 1),
\* so a sum of buffers shows which channels are in it
InputBuffer(c, n) == [k \in 1..n |-> k * Pow10(ChannelIndex(c) - 1) * One]

\* input maps: any subset of the channel ids, each with a buffer of 1..MaxLen samples
InputMaps ==
    UNION {[S -> 1..MaxLen] : S \in SUBSET MixChannels}

InputOf(lens) == [c \in DOMAIN lens |-> InputBuffer(c, lens[c])]

(* ---------------------------- specifications --------------------------- *)

\* decibel values the control plane passes to set_volume
VolumeInputs == {-6, 0}

\* the set_route calls: each channel to the bus A1, enabled or disabled, and
\* to "A3", which is the id of no bus here (the bus list stays A1, A2)
MixRoutes ==
    {<<c, "A1", e>> : c \in MixChannels, e \in BOOLEAN}
        \cup {<<c, "A3", TRUE>> : c \in MixChannels}

\* the channel whose volume is operated
MixVolumeChannels == {ChannelNames[1]}

\* buses whose mute and volume are operated
MixBuses == {"A1"}

\* the mixer with its per-frame processing
NextMix ==
    \/ \E c \in MixChannels : AddChannel(c)
    \/ \E c \in MixChannels : RemoveChannel(c)
    \/ \E c \in MixChannels : ToggleMute(c)
    \/ \E c \in MixChannels : ToggleSolo(c)
    \/ \E c \in MixVolumeChannels, db \in VolumeInputs : SetVolume(c, db)
    \/ \E r \in MixRoutes : SetRoute(r[1], r[2], r[3])
    \/ \E b \in MixBuses : ToggleBusMute(b)
    \/ \E b \in MixBuses, db \in VolumeInputs : SetBusVolume(b, db)
    \/ \E lens \in InputMaps : \E order \in Orders(DOMAIN lens) :
            Process(InputOf(lens), order)

SpecMix == Init /\ [][NextMix]_vars

\* the solo controls: the exclusive mutation and the per-channel toggle
NextSolo ==
    \/ \E c \in ChannelIds : AddChannel(c)
    \/ \E c \in ChannelIds : RemoveChannel(c)
    \/ \E c \in ChannelIds : ToggleMute(c)
    \/ \E c \in ChannelIds : ToggleSolo(c)
    \/ \E c \in ChannelIds, st \in BOOLEAN : SetChannelSoloExclusive(c, st)

SpecSolo == Init /\ [][NextSolo]_vars

\* solo driven through the exclusive mutation only
NextExclusive ==
    \/ \E c \in ChannelIds : AddChannel(c)
    \/ \E c \in ChannelIds : RemoveChannel(c)
    \/ \E c \in ChannelIds, st \in BOOLEAN : SetChannelSoloExclusive(c, st)

SpecExclusive == Init /\ [][NextExclusive]_vars

\* the routes the control plane sets: channel to bus, bus to channel and
\* channel to channel ("A3" is a bus only while the bus list holds it)
RoutePairs ==
    {<<ChannelNames[1], "A3">>, <<"A3", ChannelNames[2]>>,
     <<ChannelNames[1], ChannelNames[2]>>}

\* buses whose mute and volume are operated, and the decibel values passed
BusOpIds == {"A3"}

BusVolumeInputs == {-100, 0}

\* the bus list and the routing matrix under the control plane
Next ==
    \/ AddBus
    \/ RemoveBus
    \/ \E b \in BusOpIds : ToggleBusMute(b)
    \/ \E b \in BusOpIds, db \in BusVolumeInputs : SetBusVolume(b, db)
    \/ \E c \in ChannelIds : AddChannel(c)
    \/ \E c \in ChannelIds : RemoveChannel(c)
    \/ \E p \in RoutePairs, e \in BOOLEAN : SetRoute(p[1], p[2], e)
    \/ \E c \in {ChannelNames[1]}, L \in SUBSET {"A1", "A3"} : SetChannelBuses(c, L)

Spec == Init /\ [][Next]_vars

\* the routes the routing specification sets: between the two channels and
\* between a channel and "A3", the id of the third bus
RoutingPairs ==
    {<<ChannelNames[1], ChannelNames[2]>>, <<ChannelNames[2], ChannelNames[1]>>,
     <<ChannelNames[1], "A3">>, <<"A3", ChannelNames[1]>>}

\* the routing matrix under set_route, clear and the removals, next to the
\* exclusive solo
NextRouting ==
    \/ \E c \in MixChannels : AddChannel(c)
    \/ \E c \in MixChannels : RemoveChannel(c)
    \/ \E p \in RoutingPairs, e \in BOOLEAN : SetRoute(p[1], p[2], e)
    \/ ClearRoutes
    \/ AddBus
    \/ RemoveBus
    \/ \E c \in MixChannels, b \in BOOLEAN : SetChannelSoloExclusive(c, b)

SpecRouting == Init /\ [][NextRouting]_vars

\* the channel and the buses the commands of the mutex specification name
SyncChannel == ChannelNames[1]

SyncBuses == {"A1", "A2"}

\* the frame the worker mixes: one sample of the channel
SyncInputs == {InputOf([c \in {SyncChannel} |-> 1])}

\* command threads and the audio worker around the mixer mutex
NextSync ==
    \/ CommandAddChannel(SyncChannel)
    \/ \E b \in SyncBuses, e \in BOOLEAN : CommandSetRoute(SyncChannel, b, e)
    \/ \E L \in SUBSET SyncBuses : CommandLock(SyncChannel, L)
    \/ CommandClear
    \/ CommandEnable
    \/ CommandUnlock
    \/ WorkerLock
    \/ \E inputs \in SyncInputs : \E order \in Orders(DOMAIN inputs) :
            WorkerProcess(inputs, order)
    \/ WorkerUnlock

SpecSync == Init /\ [][NextSync]_vars

\* write and read calls one after the other, with every slice length
NextRing ==
    \/ \E n \in 0..MaxChunk : Write(n)
    \/ \E len \in 0..MaxChunk : Read(len)

SpecRing == Init /\ [][NextRing]_vars

\* one producer thread in write beside one consumer thread in read
NextSpsc ==
    \/ \E n \in 0..MaxChunk : ProducerBegin(n)
    \/ ProducerLoadRead
    \/ ProducerCopy
    \/ ProducerStore
    \/ \E len \in 0..MaxChunk : ConsumerBegin(len)
    \/ ConsumerLoadWrite
    \/ ConsumerCopy
    \/ ConsumerStore

SpecSpsc == Init /\ [][NextSpsc]_vars

\* the streams of the audio engine beside the commands that change what they
\* are bound to
InputDevices == {"in1", "in2"}

OutputDevices == {"out1"}

\* what enumerator.default_input_device() answers
DefaultInputs == {None, Some("in1")}

\* what enumerator.input_devices() answers: every device, one device, an error
InputListings ==
    {[ok |-> TRUE, devices |-> InputDevices], [ok |-> TRUE, devices |-> {"in1"}],
     [ok |-> FALSE, devices |-> {}]}

OutputListings ==
    {[ok |-> TRUE, devices |-> OutputDevices], [ok |-> FALSE, devices |-> {}]}

\* the device assignments the set_channel_input_device command is called with
DeviceAssignments ==
    {<<ChannelNames[1], Some("in2")>>, <<ChannelNames[2], Some("in1")>>}

\* a configuration file that sends one bus to an output device
BusDeviceConfig(bus_id) ==
    [channels |-> << >>,
     buses |-> <<[id |-> bus_id, volume_db |-> 0, muted |-> FALSE,
                  output_device |-> Some("out1")]>>,
     routes |-> << >>]

\* the steps of start_audio, refresh_audio_streams and stop_audio
EngineCommands(defaults, input_listings, output_listings, outcomes) ==
    \/ StartAudioBegin
    \/ RefreshBegin
    \/ RefreshWithoutEngine
    \/ StopAllStreams
    \/ ChannelStreamsLock
    \/ \E default_device_id \in defaults, order \in Orders(DOMAIN call.device_channels) :
            ChannelStreamsUnlock(default_device_id, order)
    \/ \E listed \in input_listings, built \in outcomes : CreateInputStream(listed, built)
    \/ ChannelStreamsOk
    \/ BusStreamsLock
    \/ \E order \in Orders(DOMAIN call.device_buses) : BusStreamsUnlock(order)
    \/ \E listed \in output_listings, built \in outcomes :
            CreateOutputStream(listed, built)
    \/ BusStreamsOk
    \/ StartAudioStore
    \/ StartAudioFail
    \/ RefreshReturn
    \/ StopAudio

NextStreams ==
    \/ \E id \in MixChannels : CommandAddChannel(id)
    \/ \E assignment \in DeviceAssignments :
            SetChannelInputDevice(assignment[1], assignment[2])
    \/ CommandLoadConfig(BusDeviceConfig(StandardBus[1]))
    \/ EngineCommands(DefaultInputs, InputListings, OutputListings, BOOLEAN)

SpecStreams == Init /\ [][NextStreams]_vars

\* channels and buses removed while streams are bound to them; every device
\* is listed
NextRemoval ==
    \/ CommandAddChannel(ChannelNames[1])
    \/ CommandRemoveChannel(ChannelNames[1])
    \/ (Len(buses) < 3 /\ CommandAddBus)
    \/ CommandRemoveBus
    \/ CommandLoadConfig(BusDeviceConfig(StandardBus[3]))
    \/ EngineCommands({Some("in1")}, {[ok |-> TRUE, devices |-> InputDevices]},
                      {[ok |-> TRUE, devices |-> OutputDevices]}, BOOLEAN)

SpecRemoval == Init /\ [][NextRemoval]_vars

\* process_audio beside the callbacks of the streams and a command
CapturedBuffers == {<<One>>}

\* a configuration file with one channel on the default input device, routed
\* to a bus that plays on an output device
AudioConfig ==
    [channels |-> <<[id |-> ChannelNames[1], volume_db |-> 0, muted |-> FALSE,
                     solo |-> FALSE, input_device |-> None]>>,
     buses |-> <<[id |-> StandardBus[1], volume_db |-> 0, muted |-> FALSE,
                  output_device |-> Some("out1")]>>,
     routes |-> <<[from |-> ChannelNames[1], to |-> StandardBus[1], enabled |-> TRUE]>>]

NextAudio ==
    \/ CommandLoadConfig(AudioConfig)
    \/ EngineCommands({Some("in1")}, {[ok |-> TRUE, devices |-> InputDevices]},
                      {[ok |-> TRUE, devices |-> OutputDevices]}, BOOLEAN)
    \/ \E d \in InputDevices : InputCallback(d)
    \/ \E d \in OutputDevices : PlaybackCallback(d)
    \/ \E audio_buffer \in CapturedBuffers : AudioReceive(audio_buffer)
    \/ AudioLock
    \/ \E order \in Orders(DOMAIN audio.channel_audio) : AudioMix(order)
    \/ \E device_id \in OutputDevices : AudioSend(device_id)
    \/ AudioWake
    \/ AudioUnlock

SpecAudio == Init /\ [][NextAudio]_vars

(* ------------------------ claims: frame processing --------------------- *)

AnySoloActive == \E c \in DOMAIN channels : channels[c].solo

\* !muted /\ (!any_solo_active \/ solo), for a channel of the mixer
Contributes(c) ==
    /\ c \in DOMAIN channels
    /\ ~channels[c].muted
    /\ (~AnySoloActive \/ channels[c].solo)

EnabledDests(c) == {d \in {p[2] : p \in DOMAIN routing} : is_routed(routing, c, d)}

\* the input channels of the last process call that are audible and routed to d
Sources(d) == {c \in DOMAIN last.inputs : Contributes(c) /\ d \in EnabledDests(c)}

ExpectedAmplitude(db) == IF db <= -60 THEN 0 ELSE Pow10Db20(db)

RECURSIVE SumSamples(_, _, _)
\* the sum over the channels S of sample k of their input, each times gain[c]
SumSamples(S, k, gain) ==
    IF S = {} THEN 0
    ELSE LET c == CHOOSE x \in S : TRUE
         IN Scale(last.inputs[c][k], gain[c]) + SumSamples(S \ {c}, k, gain)

\* sample k of what the channels routed to d add up to, before any bus gain
PreMix(d, k) ==
    SumSamples({c \in Sources(d) : k <= Len(last.inputs[c])}, k,
               [c \in DOMAIN channels |-> ExpectedAmplitude(channels[c].volume)])

IsCurrentBus(d) == \E i \in 1..Len(buses) : buses[i].id = d

BusOf(d) == buses[CHOOSE i \in 1..Len(buses) : buses[i].id = d]

AllUnity ==
    /\ \A c \in DOMAIN channels : channels[c].volume = UNITY_GAIN
    /\ \A i \in 1..Len(buses) : buses[i].volume_db = 0 /\ ~buses[i].muted

\* C1: in a process call, the buffer of input channel c is accumulated into each
\* destination it has an enabled route to if and only if c is a channel of the
\* mixer, is not muted, and either no channel of the mixer is soloed or c is;
\* the solo test ranges over all channels, with or without an input buffer.
C1_AccumulatedIffAudible ==
    last.op = "process" =>
        last.result.accumulated =
            {<<c, d>> \in (DOMAIN last.inputs) \X {p[2] : p \in DOMAIN routing} :
                Contributes(c) /\ d \in EnabledDests(c)}

\* a soloed channel without an input buffer silences an unmuted, routed channel
\* that has one; and elsewhere in the same call nothing is accumulated
C1_Witness ==
    /\ last.op = "process"
    /\ \E s \in DOMAIN channels, c \in DOMAIN channels :
        /\ s # c
        /\ s \notin DOMAIN last.inputs
        /\ channels[s].solo
        /\ c \in DOMAIN last.inputs
        /\ ~channels[c].muted /\ ~channels[c].solo
        /\ EnabledDests(c) # {}
        /\ last.result.accumulated = {}

\* C2: with every channel and bus gain at unity, the destinations returned are
\* those with an audible routed input channel, and sample k of destination d
\* is the sum of sample k of exactly those channels, each counted once.
C2_UnitySum ==
    (last.op = "process" /\ AllUnity) =>
        LET out == last.result.outputs
        IN /\ DOMAIN out = {d \in {p[2] : p \in DOMAIN routing} : Sources(d) # {}}
           /\ \A d \in DOMAIN out :
                /\ Len(out[d]) \in {Len(last.inputs[c]) : c \in Sources(d)}
                /\ \A k \in 1..Len(out[d]) :
                    out[d][k] =
                        SumSamples({c \in Sources(d) : k <= Len(last.inputs[c])}, k,
                                   [c \in DOMAIN channels |-> GainUnit])

\* two audible channels routed to one destination add up
C2_Witness ==
    /\ last.op = "process"
    /\ AllUnity
    /\ \E d \in DOMAIN last.result.outputs :
        /\ Cardinality(Sources(d)) >= 2
        /\ last.result.outputs[d][1] = 11 * One

\* C3: after the mix, a buffer whose destination id is the id of a current bus
\* is the mix times that bus's gain, 0 when the bus is muted (so a muted bus
\* that receives an audible routed channel returns zeros, as many as the
\* input has samples); a buffer whose destination is no bus is the mix itself.
C3_BusGainApplied ==
    last.op = "process" =>
        LET out == last.result.outputs
        IN /\ \A d \in DOMAIN out :
                /\ Len(out[d]) \in {Len(last.inputs[c]) : c \in Sources(d)}
                /\ \A k \in 1..Len(out[d]) :
                    out[d][k] =
                        IF IsCurrentBus(d)
                        THEN IF BusOf(d).muted THEN 0
                             ELSE Scale(PreMix(d, k), ExpectedAmplitude(BusOf(d).volume_db))
                        ELSE PreMix(d, k)
           /\ \A i \in 1..Len(buses) :
                (buses[i].muted /\ Sources(buses[i].id) # {}) => buses[i].id \in DOMAIN out

\* one channel routed to a muted bus and to a destination that is no bus: the
\* bus buffer is all zeros, the other buffer is the input
C3_Witness ==
    /\ last.op = "process"
    /\ \E c \in DOMAIN last.inputs, b \in DOMAIN last.result.outputs,
          d \in DOMAIN last.result.outputs :
        /\ IsCurrentBus(b) /\ BusOf(b).muted
        /\ ~IsCurrentBus(d)
        /\ Sources(b) = {c} /\ Sources(d) = {c}
        /\ channels[c].volume = UNITY_GAIN
        /\ Len(last.inputs[c]) = MaxLen
        /\ last.result.outputs[b] = [k \in 1..MaxLen |-> 0]
        /\ last.result.outputs[d] = last.inputs[c]

(* --------------------------- claims: solo ------------------------------ *)

Soloed == {c \in DOMAIN channels : channels[c].solo}

\* C4: set_channel_solo_exclusive(id, true) on an existing channel leaves solo
\* set on that channel and on no other, and records id as the soloed channel
\* (so after soloing A and then B only B is soloed).
C4_ExclusiveSoloOn ==
    (/\ last.op = "set_channel_solo_exclusive"
     /\ last.state
     /\ last.id \in DOMAIN channels)
        => /\ Soloed = {last.id}
           /\ soloed_channel_id = Some(last.id)

\* B is soloed exclusively while A was: afterwards only B is
C4_Witness ==
    /\ last.op = "set_channel_solo_exclusive"
    /\ last.state
    /\ last.id \in DOMAIN channels
    /\ last.record_before # None
    /\ last.record_before # Some(last.id)
    /\ last.solo_before # {}
    /\ last.id \notin last.solo_before
    /\ Cardinality(DOMAIN channels) >= 3

\* C5: from a mixer without a soloed channel, any sequence of
\* set_channel_solo_exclusive, add_channel (of unsoloed channels) and
\* remove_channel calls leaves at most one channel soloed.
C5_AtMostOneSolo == Cardinality(Soloed) <= 1

\* the solo has moved from one channel to another
C5_Witness ==
    /\ last.op = "set_channel_solo_exclusive"
    /\ last.state
    /\ Cardinality(last.solo_before) = 1
    /\ last.id \notin last.solo_before
    /\ Soloed = {last.id}
    /\ last.solo_before \subseteq DOMAIN channels

C7_UnsoloClearsAll ==
    (/\ last.op = "set_channel_solo_exclusive"
     /\ ~last.state
     /\ last.record_before = Some(last.id))
        => Soloed = {}

(* --------------------------- claims: buses ----------------------------- *)

ASeries == <<"A1", "A2", "A3", "A4", "A5">>

\* C8: the mixer always holds at least 2 and at most 5 buses.
C8_BusCountInRange == 2 <= bus_count /\ bus_count <= 5

\* remove_bus is refused at 2 buses, in a mixer with channels and routes
C8_Witness ==
    /\ last.op = "remove_bus"
    /\ last.ret = "InvalidConfiguration"
    /\ bus_count = 2
    /\ DOMAIN channels # {}
    /\ \E p \in DOMAIN routing : p[2] = "A2"

\* C9: add_bus returns Ok exactly when there are fewer than 5 buses and
\* remove_bus exactly when there are more than 2; otherwise the call returns
\* an invalid-configuration error and the bus list and the routing matrix
\* stay as they were.
C9_BusLimits ==
    [][/\ last'.op = "add_bus" =>
            /\ (last'.ret = "Ok") <=> (Len(buses) < 5)
            /\ last'.ret # "Ok" =>
                (last'.ret = "InvalidConfiguration" /\ buses' = buses /\ routing' = routing)
       /\ last'.op = "remove_bus" =>
            /\ (last'.ret = "Ok") <=> (Len(buses) > 2)
            /\ last'.ret # "Ok" =>
                (last'.ret = "InvalidConfiguration" /\ buses' = buses /\ routing' = routing)
      ]_vars

\* add_bus is refused with 5 buses, one of them muted, and routes in the matrix
C9_Witness ==
    /\ last.op = "add_bus"
    /\ last.ret = "InvalidConfiguration"
    /\ Len(buses) = 5
    /\ buses[3].muted
    /\ \E p \in DOMAIN routing : routing[p]

\* C10: the bus list is always A1..An in order; a successful add_bus returns
\* the id of the new last bus and a successful remove_bus the id of the bus
\* that was last.
C10_BusSeries ==
    /\ Len(buses) <= Len(ASeries)
    /\ \A i \in 1..Len(buses) : buses[i].id = ASeries[i]
    /\ (last.op = "add_bus" /\ last.ret = "Ok") => last.id = ASeries[Len(buses)]
    /\ (last.op = "remove_bus" /\ last.ret = "Ok") => last.id = ASeries[Len(buses) + 1]

\* A4 has just been removed from A1..A4
C10_Witness ==
    /\ last.op = "remove_bus"
    /\ last.ret = "Ok"
    /\ last.id = "A4"
    /\ Len(buses) = 3
    /\ buses[3].id = "A3"

(* --------------------------- claims: routing --------------------------- *)

\* the entries of a routing map that name id as source or as destination
Naming(routes, id) == {p \in DOMAIN routes : p[1] = id \/ p[2] = id}

\* the ids of the current buses
BusIds(bs) == {bs[i].id : i \in 1..Len(bs)}

\* every id a routing entry of the specifications can name
RouteIds == ChannelIds \cup {ASeries[i] : i \in 1..Len(ASeries)}

\* C11: after remove_channel(C) succeeds the routing matrix holds no entry,
\* enabled or disabled, with C as source or as destination, and every entry
\* that names C in neither position is there as before.
C11_RemoveChannelPurgesRoutes ==
    [][(/\ last'.op = "remove_channel"
        /\ last'.ret = "Ok"
        /\ last'.id \in DOMAIN channels \ DOMAIN channels')
        => /\ Naming(routing', last'.id) = {}
           /\ DOMAIN routing' = DOMAIN routing \ Naming(routing, last'.id)
           /\ \A p \in DOMAIN routing' : routing'[p] = routing[p]
      ]_vars

\* a removal that purged an entry with the channel as source and one with it
\* as destination, and kept an enabled and a disabled entry of other ids
C11_Witness ==
    /\ last.op = "remove_channel"
    /\ last.ret = "Ok"
    /\ \E p, q \in last.purged : p[1] = last.id /\ q[2] = last.id
    /\ \E p, q \in DOMAIN routing : routing[p] /\ ~routing[q]

C13_RemoveMissingChannel ==
    [][(last'.op = "remove_channel" /\ last'.id \notin DOMAIN channels)
        => /\ last'.ret = "NotFound"
           /\ channels' = channels
           /\ routing' = routing
           /\ soloed_channel_id' = soloed_channel_id
           /\ buses' = buses
      ]_vars

\* the missing id is named by an enabled routing entry and by the
\* soloed-channel record, next to an existing channel
C13_Witness ==
    /\ last.op = "remove_channel"
    /\ last.ret = "NotFound"
    /\ last.id \notin DOMAIN channels
    /\ DOMAIN channels # {}
    /\ \E p \in Naming(routing, last.id) : routing[p]
    /\ soloed_channel_id = Some(last.id)

\* C14: is_routed(from, to) is the value of the last set_route(from, to, v)
\* that no purge of the pair has followed, and false if there is none;
\* get_outputs(from) is exactly the set of d with is_routed(from, d).
\* Step by step: nothing is routed at construction; set_route sets its pair;
\* clear and a successful removal reset the pairs they purge; every other
\* pair keeps its value.
C14_RouteLookup ==
    /\ \A f, t \in RouteIds : ~is_routed(routing, f, t)
    /\ [][/\ \A f, t \in RouteIds :
                is_routed(routing', f, t) =
                    IF last'.op = "set_route" /\ last'.from = f /\ last'.to = t
                    THEN last'.enabled
                    ELSE IF last'.op = "clear" THEN FALSE
                    ELSE IF /\ last'.op \in {"remove_channel", "remove_bus"}
                            /\ last'.ret = "Ok"
                            /\ (f = last'.id \/ t = last'.id)
                         THEN FALSE
                    ELSE is_routed(routing, f, t)
          /\ \A f \in RouteIds :
                get_outputs(routing', f) = {d \in RouteIds : is_routed(routing', f, d)}
         ]_vars

\* a route that was enabled has been disabled: the entry is there, the
\* lookup is false and the outputs of the source are its other destination
C14_Witness ==
    /\ last.op = "set_route"
    /\ ~last.enabled
    /\ <<last.from, last.to>> \in DOMAIN routing
    /\ ~is_routed(routing, last.from, last.to)
    /\ get_outputs(routing, last.from) # {}
    /\ last.to \notin get_outputs(routing, last.from)

\* C15: after set_channel_buses(c, L), L a set of current buses, the route
\* from c to a current bus b is enabled iff b is in L (get_channel_buses(c)
\* is L); the routes from c to destinations that are no bus and every route
\* of another source are as before.
C15_SetChannelBuses ==
    [][(last'.op = "set_channel_buses" /\ last'.bus_ids \subseteq BusIds(buses))
        => LET c == last'.id
               L == last'.bus_ids
               Others == {p \in DOMAIN routing \cup DOMAIN routing' :
                            p[1] # c \/ p[2] \notin BusIds(buses)}
           IN /\ \A b \in BusIds(buses) : is_routed(routing', c, b) <=> b \in L
              /\ get_channel_buses(routing', buses', c) = L
              /\ \A p \in Others :
                    /\ p \in DOMAIN routing /\ p \in DOMAIN routing'
                    /\ routing'[p] = routing[p]
      ]_vars

\* A3 is a current bus the channel has a disabled entry for, A1 is selected,
\* and the channel's route to another channel and a bus's route are enabled
C15_Witness ==
    /\ last.op = "set_channel_buses"
    /\ last.bus_ids = {"A1"}
    /\ "A3" \in BusIds(buses)
    /\ <<last.id, "A3">> \in DOMAIN routing
    /\ get_channel_buses(routing, buses, last.id) = {"A1"}
    /\ is_routed(routing, last.id, ChannelNames[2])
    /\ is_routed(routing, "A3", ChannelNames[2])

(* ------------------------- claims: mixer mutex ------------------------- *)

\* the positions of a thread that holds the guard
CommandInside == command.pc \in {"clear", "enable", "unlock"}

WorkerInside == worker.pc \in {"locked", "processed"}

\* C16: the commands and the worker's process_with_effects call run on the
\* guard of the one mixer mutex, so a command and the worker are never inside
\* together and a mix is never computed while a command is part-way through
\* (as between the two loops of set_channel_buses).
C16_MixUnderMutex ==
    /\ ~(CommandInside /\ WorkerInside)
    /\ CommandInside => mixer_lock = "command"
    /\ WorkerInside => mixer_lock = "worker"
    /\ worker.pc = "processed" =>
        /\ worker.command.pc = "idle"
        /\ last.op = "process"
        /\ \A b \in BusIds(buses) :
            b \in DOMAIN last.result.outputs
                <=> (SyncChannel \in DOMAIN channels /\ is_routed(routing, SyncChannel, b))

\* the worker has mixed after a set_channel_buses command that selected A1
\* out of A1 and A2: the frame goes to A1 only
C16_Witness ==
    /\ worker.pc = "processed"
    /\ <<SyncChannel, "A2">> \in DOMAIN routing
    /\ get_channel_buses(routing, buses, SyncChannel) = {"A1"}
    /\ DOMAIN last.result.outputs = {"A1"}

(* ------------------------- claims: ring buffer ------------------------- *)

\* s is a prefix of t
IsPrefix(s, t) == Len(s) <= Len(t) /\ s = SubSeq(t, 1, Len(s))

\* the smaller of two naturals
Smaller(a, b) == IF a <= b THEN a ELSE b

\* C17: whatever the slice lengths of the write and read calls, the samples
\* read returns, joined, are a prefix of the samples write has accepted,
\* joined: none lost, doubled or out of order, also across the wrap-around
\* of the storage array; what has not been read yet is still stored.
C17_RingRoundTrip ==
    /\ IsPrefix(returned, accepted)
    /\ Len(returned) = read_pos
    /\ Len(accepted) = write_pos
    /\ \A k \in (Len(returned) + 1)..Len(accepted) : buffer[slot(k - 1)] = accepted[k]

\* a read call has returned samples from both sides of the wrap-around, after
\* more samples than the storage has slots
C17_Witness ==
    /\ consumer.pc = "idle" /\ "ret" \in DOMAIN consumer
    /\ consumer.ret >= 2
    /\ slot(read_pos - 1) < slot(read_pos - consumer.ret)
    /\ Len(returned) > capacity
    /\ returned = [k \in 1..Len(returned) |-> k]

\* C18: in every state reached by write and read calls the cursors satisfy
\* write >= read and write - read <= C - 1, and
\* available_read + available_write + 1 <= C.
C18_RingCursors ==
    /\ write_pos >= read_pos
    /\ write_pos - read_pos <= capacity - 1
    /\ available_read_internal(read_pos, write_pos)
        + available_write_internal(write_pos, read_pos) + 1 <= capacity

\* the buffer is full after both cursors have gone round the storage
C18_Witness ==
    /\ write_pos - read_pos = capacity - 1
    /\ read_pos > capacity
    /\ available_write_internal(write_pos, read_pos) = 0

\* C19: write(samples) stores the first min(len, free) samples, free being
\* C - 1 - (write - read) at the call, and returns that count; read(buf)
\* returns min(len, write - read) samples, the oldest first; a write into a
\* full buffer returns 0 and changes nothing.
C19_WriteReadCounts ==
    [][/\ (producer' # producer) =>
            LET free == capacity - 1 - (write_pos - read_pos)
                samples == producer'.samples
                k == Smaller(Len(samples), free)
            IN /\ producer'.ret = k
               /\ write_pos' = write_pos + k
               /\ read_pos' = read_pos
               /\ accepted' = accepted \o SubSeq(samples, 1, k)
               /\ \A i \in 1..k : buffer'[slot(write_pos + i - 1)] = samples[i]
               /\ \A s \in DOMAIN buffer :
                    (\A i \in 1..k : slot(write_pos + i - 1) # s) => buffer'[s] = buffer[s]
               /\ free = 0 => (producer'.ret = 0 /\ buffer' = buffer /\ write_pos' = write_pos)
       /\ (consumer' # consumer) =>
            LET k == Smaller(consumer'.len, write_pos - read_pos)
            IN /\ consumer'.ret = k
               /\ consumer'.out = [i \in 1..k |-> buffer[slot(read_pos + i - 1)]]
               /\ read_pos' = read_pos + k
               /\ write_pos' = write_pos
               /\ buffer' = buffer
      ]_vars

\* a write of several samples into a full buffer has returned 0
C19_Witness ==
    /\ producer.pc = "idle" /\ "ret" \in DOMAIN producer
    /\ Len(producer.samples) >= 2
    /\ producer.ret = 0
    /\ write_pos - read_pos = capacity - 1
    /\ write_pos > capacity

\* C20: with a producer in write and a consumer in read at once, under every
\* interleaving of their cursor loads, slot accesses and cursor stores, the
\* consumer reads only slots whose sample the producer has stored and
\* published, the producer writes no slot whose sample is yet to be read,
\* the samples come out in the producer's order, and write - read stays
\* within 0..C - 1.
C20_SpscSafety ==
    /\ write_pos - read_pos >= 0
    /\ write_pos - read_pos <= capacity - 1
    /\ Len(accepted) = write_pos
    /\ IsPrefix(returned, accepted)
    /\ (consumer.pc = "copy") =>
        /\ consumer.read_pos + consumer.to_read <= write_pos
        /\ consumer.out =
            SubSeq(accepted, consumer.read_pos + 1, consumer.read_pos + consumer.i)
        /\ \A j \in consumer.i..(consumer.to_read - 1) :
            buffer[slot(consumer.read_pos + j)] = accepted[consumer.read_pos + j + 1]
    /\ (producer.pc = "copy") =>
        \A j \in producer.i..(producer.to_write - 1) :
            /\ producer.write_pos + j - capacity < read_pos
            /\ (consumer.pc = "copy") =>
                \A h \in consumer.i..(consumer.to_read - 1) :
                    slot(consumer.read_pos + h) # slot(producer.write_pos + j)

\* both threads are inside their loops with slots still to access, the
\* producer part-way through a slice that crosses the wrap-around
C20_Witness ==
    /\ producer.pc = "copy" /\ consumer.pc = "copy"
    /\ producer.i >= 1 /\ producer.i < producer.to_write
    /\ consumer.i < consumer.to_read
    /\ slot(producer.write_pos + producer.i) < slot(producer.write_pos)
    /\ consumer.read_pos > 0

(* --------------------------- claims: streams --------------------------- *)

\* the engines whose streams exist: the stored one, and the one a command in
\* progress works on
CallEngine == call.engine

\* the device a channel with this input_device field is meant to capture from
ResolvedDevice(input_device) == resolve(input_device, call.default_device_id)

\* start_channel_streams has returned Ok in the command in progress
ChannelStreamsReturnedOk == call.pc # "idle" /\ call.channel_streams = "Ok"

\* C21: after start_channel_streams returns Ok with a default input device, the
\* input streams are keyed by exactly the resolved devices of the channels read
\* under the lock, and each such channel is in the binding list of the stream
\* of its resolved device, None resolving to the default device.
C21_OneStreamPerDevice ==
    (ChannelStreamsReturnedOk /\ call.default_device_id # None) =>
        /\ DOMAIN CallEngine.input_streams
            = UNION {ResolvedDevice(call.seen[c]) : c \in DOMAIN call.seen}
        /\ \A c \in DOMAIN call.seen :
              \A d \in ResolvedDevice(call.seen[c]) :
                 /\ d \in DOMAIN CallEngine.input_streams
                 /\ c \in CallEngine.input_streams[d].target_channels

\* no two groups of the call resolve to one device
GroupsDistinct ==
    \A k1, k2 \in DOMAIN call.device_channels :
        (ResolvedDevice(k1) = ResolvedDevice(k2)) => k1 = k2

\* the statement of C21 for the calls whose groups resolve to distinct devices
C21_WhenGroupsDistinct == GroupsDistinct => C21_OneStreamPerDevice

\* a call that returned Ok with two channels on two devices, one by default
C21_WhenGroupsDistinct_Witness ==
    /\ ChannelStreamsReturnedOk
    /\ call.default_device_id # None
    /\ GroupsDistinct
    /\ Cardinality(DOMAIN CallEngine.input_streams) = 2
    /\ \E c \in DOMAIN call.seen : call.seen[c] = None

\* C22: when start_channel_streams returns an error, the input-stream map holds
\* no stream that the failed call created.
C22_FailedStartTornDown ==
    (call.pc = "return" /\ call.channel_streams = "Err") =>
        \A d \in DOMAIN CallEngine.input_streams : CallEngine.input_streams[d].prior

\* the streams of an engine that were there when the refresh began
PriorStreams(engine) ==
    {d \in DOMAIN engine.input_streams : engine.input_streams[d].prior}
        \cup {d \in DOMAIN engine.output_streams : engine.output_streams[d].prior}

\* the refresh in progress is past stop_all_streams
RefreshPastStop == call.op = "refresh" /\ call.pc \notin {"idle", "stop_all_streams"}

\* C23: in refresh_streams no stream that was active before the call is left in
\* the maps once stop_all_streams is over, so none is alive when a new platform
\* stream is created; after a successful refresh the maps hold only streams
\* that the refresh created.
C23_RefreshDropsFirst ==
    /\ RefreshPastStop => PriorStreams(CallEngine) = {}
    /\ (call.pc = "idle" /\ call.op = "refresh" /\ call.ret = "Ok") =>
            /\ audio_engine # None
            /\ PriorStreams(the(audio_engine)) = {}

\* a refresh that found an input and an output stream returns with new ones
C23_Witness ==
    /\ call.op = "refresh"
    /\ call.pc = "return"
    /\ call.ret = "Ok"
    /\ call.found = {"in1", "out1"}
    /\ DOMAIN CallEngine.input_streams # {}
    /\ DOMAIN CallEngine.output_streams # {}

(* ------------------------- claims: process_audio ----------------------- *)

\* C24: process_audio never waits on a stream: an input stream with an empty
\* channel is passed over, and a buffer for an output stream whose channel is
\* full is dropped, the thread never parked in the push.
C24_NeverWaitsOnStream == audio.pc # "parked"

\* C25: the mixer mutex is released before a buffer is pushed to an output
\* stream: while process_audio is in its push loop, or parked in a push, the
\* guard is not held by it.
C25_PushAfterUnlock == audio.pc \in {"send", "parked"} => mixer_lock # "audio"

(* ------------------------ claims: stream lifetime ---------------------- *)

\* the command in progress is where platform streams are created or dropped:
\* stop_all_streams, the loops over the groups of start_channel_streams and
\* start_bus_streams, and the return of the command, where start_audio drops
\* the engine it replaces or the one that failed
StreamWork == call.pc \in {"stop_all_streams", "input_loop", "output_loop", "return"}

\* C26: the thread of start_channel_streams, start_bus_streams, refresh_streams
\* or stop does not hold the mixer mutex while it creates or drops a platform
\* stream: the guard taken for the grouping is released before the first stream
\* is built, and none is taken for dropping.
C26_NoGuardAcrossStreams == StreamWork => mixer_lock # "engine"

\* a refresh that dropped streams and built an input stream is about to build
\* an output stream
C26_Witness ==
    /\ call.op = "refresh"
    /\ call.pc = "output_loop"
    /\ call.found # {}
    /\ DOMAIN CallEngine.input_streams # {}
    /\ call.remaining # << >>
    /\ Head(call.remaining) # None

\* the ids that the streams of an engine are bound to
BoundChannels(engine) ==
    UNION {engine.input_streams[d].target_channels : d \in DOMAIN engine.input_streams}

BoundBuses(engine) ==
    UNION {engine.output_streams[d].target_channels : d \in DOMAIN engine.output_streams}

\* no stream of the stored engine is bound to an id the mixer does not have
NoStaleBinding ==
    audio_engine # None =>
        /\ BoundChannels(the(audio_engine)) \subseteq DOMAIN channels
        /\ BoundBuses(the(audio_engine)) \subseteq BusIds(buses)

\* C27: a remove_channel or remove_bus command issued while no other command is
\* in progress, on a mixer whose ids the streams of the engine are bound to,
\* leaves no stream bound to an id that the mixer no longer has: the removal
\* refreshes the streams that name the removed id.
C27_RemovalRefreshes ==
    [][(/\ call.pc = "idle"
        /\ NoStaleBinding
        /\ last'.op \in {"remove_channel", "remove_bus"}
        /\ (channels' # channels \/ buses' # buses))
            => NoStaleBinding']_vars

(* ------------------------- claims: configuration ----------------------- *)

\* the volume_db values of a configuration file: any number a file can hold,
\* here the ends of the interval, a value inside and one beyond each end
ConfigVolumes == {-100, MIN_GAIN, 0, MAX_GAIN, 100}

\* a configuration with one channel and one bus entry
VolumeConfig(channel_id, channel_db, bus_id, bus_db) ==
    [channels |-> <<[id |-> channel_id, volume_db |-> channel_db, muted |-> FALSE,
                     solo |-> FALSE, input_device |-> None]>>,
     buses |-> <<[id |-> bus_id, volume_db |-> bus_db, muted |-> FALSE,
                  output_device |-> None]>>,
     routes |-> << >>]

VolumeConfigs ==
    {VolumeConfig(c, cdb, b, bdb) :
        c \in {ChannelNames[1]}, cdb \in ConfigVolumes,
        b \in {StandardBus[1]}, bdb \in ConfigVolumes}

\* the volume setters beside the two ways a configuration becomes a mixer
NextConfig ==
    \/ \E config \in VolumeConfigs : LoadConfig(config)
    \/ \E config \in VolumeConfigs : ToMixerEngine(config)
    \/ \E id \in MixChannels, db \in ConfigVolumes : SetVolume(id, db)
    \/ \E bus_id \in {StandardBus[1], StandardBus[2]}, db \in ConfigVolumes :
          SetBusVolume(bus_id, db)

SpecConfig == Init /\ [][NextConfig]_vars

\* the volume of every channel is in [-60, +6] dB
ChannelVolumesInInterval ==
    \A c \in DOMAIN channels : channels[c].volume \in MIN_GAIN..MAX_GAIN

\* C28: in every reachable mixer state the volume of every channel and the
\* volume_db of every bus is in [-60, +6] dB, whether set by set_volume and
\* Bus::set_volume or taken from a configuration with arbitrary volume_db values
\* through to_channel, to_mixer_engine or the load_config command.
C28_DecibelsInInterval ==
    /\ ChannelVolumesInInterval
    /\ \A i \in 1..Len(buses) : buses[i].volume_db \in MIN_GAIN..MAX_GAIN

(* --------------------------- claims: level meters ---------------------- *)

\* samples in thousandths: silence, -60 dB, half scale, full scale of either
\* sign, and twice full scale
MeterSamples == {0, 1, 501, One, -One, 1995}

\* the amounts of a decay in dB: a step, a step of the other sign, and one
\* larger than the whole range
DecayAmounts == {6, -6, 100}

\* the meters of the channels under update_level and decay_meters
NextMeter ==
    \/ \E id \in MixChannels : AddChannel(id)
    \/ \E id \in MixChannels, sample \in MeterSamples : UpdateLevel(id, sample)
    \/ \E amount \in DecayAmounts : DecayMeters(amount)

SpecMeter == Init /\ [][NextMeter]_vars

\* current_db and peak_db of every channel are in [-60, 0]
MetersInInterval ==
    \A c \in DOMAIN channels :
        /\ channels[c].level.current_db \in MIN_LEVEL..MAX_LEVEL
        /\ channels[c].level.peak_db \in MIN_LEVEL..MAX_LEVEL

\* C29: after any sequence of update and decay_peak / decay_meters calls with
\* arbitrary finite arguments, current_db and peak_db of every channel are in
\* [-60, 0]; update never lowers peak_db; decay_peak lowers peak_db by amount,
\* floored at -60.
C29_LevelsInInterval ==
    /\ MetersInInterval
    /\ (last.op = "update_level" /\ "before" \in DOMAIN last) =>
          channels[last.id].level.peak_db >= last.before.peak_db
    /\ last.op = "decay_meters" =>
          \A c \in DOMAIN channels :
             /\ channels[c].level.peak_db
                  = max(last.before[c].peak_db - last.amount, MIN_LEVEL)
             /\ channels[c].level.peak_db <= last.before[c].peak_db

(* ------------------------ claims: toggle_solo command ------------------ *)

SoloChannels == {ChannelNames[1], ChannelNames[2], ChannelNames[3]}

\* a configuration file with one channel, soloed or not
SoloConfig(channel_id, solo) ==
    [channels |-> <<[id |-> channel_id, volume_db |-> 0, muted |-> FALSE,
                     solo |-> solo, input_device |-> None]>>,
     buses |-> << >>,
     routes |-> << >>]

\* the solo button beside the commands that create channels: load_config is
\* how several channels come to be soloed at once
NextToggleSolo ==
    \/ \E id \in SoloChannels : CommandAddChannel(id)
    \/ \E id \in SoloChannels, solo \in BOOLEAN : CommandLoadConfig(SoloConfig(id, solo))
    \/ \E id \in SoloChannels \cup {""} : CommandToggleSolo(id)

SpecToggleSolo == Init /\ [][NextToggleSolo]_vars

\* the last command was a toggle_solo that found its channel
ToggledSolo == last.op = "toggle_solo_command" /\ last.ret = "Ok"

\* the flag of the channel is flipped and its new value returned
FlippedAndReturned ==
    /\ channels[last.id].solo = ~(last.id \in last.solo_before)
    /\ last.value = channels[last.id].solo

C31_SoloResult ==
    last.op = "set_channel_solo_exclusive" =>
        last.ret = IF last.id \in DOMAIN channels THEN "Ok" ELSE "NotFound"

\* C37: whenever the soloed-channel record is Some(c), c is a channel of the
\* mixer and its solo flag is set, after any sequence of
\* set_channel_solo_exclusive, toggle_solo and remove_channel calls.
C37_RecordNamesSoloedChannel ==
    \A c \in soloed_channel_id :
        /\ c \in DOMAIN channels
        /\ channels[c].solo

(* ------------------------ claims: order of mixing ---------------------- *)

\* C32: the outputs of process_with_effects (the destination keys, the length
\* of each buffer and every sample) are the same for every order in which the
\* input map is iterated, also when the buffers of channels routed to one
\* destination have different lengths.
C32_OrderIrrelevant ==
    last.op = "process" =>
        \A order \in Orders(DOMAIN last.inputs) :
            process_with_effects(channels, routing, buses, last.inputs, order).outputs
                = last.result.outputs

(* --------------------------- claims: fan-out --------------------------- *)

\* routes among the channels, in both directions, and from each to the bus A1
FanOutRoutes ==
    {<<ChannelNames[1], ChannelNames[2]>>, <<ChannelNames[2], ChannelNames[1]>>,
     <<ChannelNames[1], StandardBus[1]>>, <<ChannelNames[2], StandardBus[1]>>}

\* the mixer processing frames over a routing matrix with cycles
NextFanOut ==
    \/ \E c \in MixChannels : AddChannel(c)
    \/ \E r \in FanOutRoutes, e \in BOOLEAN : SetRoute(r[1], r[2], e)
    \/ \E lens \in InputMaps : \E order \in Orders(DOMAIN lens) :
            Process(InputOf(lens), order)

SpecFanOut == Init /\ [][NextFanOut]_vars

\* the channels with an input buffer and an enabled entry (c, d) in the matrix
DirectSources(inputs, d) ==
    {c \in DOMAIN inputs : <<c, d>> \in DOMAIN routing /\ routing[<<c, d>>]}

\* C33: the output for a destination is made from the input buffers of the
\* channels with an enabled route to that destination and from nothing else: it
\* is what processing those inputs alone gives. A buffer accumulated for a
\* destination that is a channel is not routed onward, so a destination with
\* no direct source among the inputs gets no output, cycle or not.
C33_SingleFanOut ==
    last.op = "process" =>
        \A d \in DOMAIN last.result.outputs :
            LET direct == DirectSources(last.inputs, d)
                alone == [c \in direct |-> last.inputs[c]]
            IN /\ direct # {}
               /\ \E order \in Orders(direct) :
                     LET result == process_with_effects(channels, routing, buses,
                                                        alone, order)
                     IN /\ d \in DOMAIN result.outputs
                        /\ result.outputs[d] = last.result.outputs[d]

\* ch1 and ch2 route to each other and ch2 to A1; a frame with input for ch1
\* alone gives an output for ch2 and none for ch1 or A1
C33_Witness ==
    /\ last.op = "process"
    /\ DOMAIN last.inputs = {ChannelNames[1]}
    /\ is_routed(routing, ChannelNames[1], ChannelNames[2])
    /\ is_routed(routing, ChannelNames[2], ChannelNames[1])
    /\ is_routed(routing, ChannelNames[2], StandardBus[1])
    /\ DOMAIN last.result.outputs = {ChannelNames[2]}

(* ------------------------ claims: effects chain ------------------------ *)

EffectNames == {"equalizer", "compressor", "noise_gate"}

\* the effects a chain can hold
Effects ==
    {[name |-> n, bypassed |-> b, fails |-> f] :
        n \in EffectNames, b \in BOOLEAN, f \in BOOLEAN}

\* the chains of up to MaxEffects effects
Chains == UNION {[1..n -> Effects] : n \in 0..MaxEffects}

NextChain == \E effects \in Chains : ProcessChain(effects)

SpecChain == Init /\ [][NextChain]_vars

\* the names of the effects of a chain that are not bypassed and do not fail
RECURSIVE NamesApplicable(_)
NamesApplicable(effects) ==
    IF effects = << >> THEN << >>
    ELSE IF Head(effects).bypassed \/ Head(effects).fails
         THEN NamesApplicable(Tail(effects))
         ELSE <<Head(effects).name>> \o NamesApplicable(Tail(effects))

SampleRates == {44100, 48000, 96000}

\* the hold time of the gate parameters, in ms
HoldTimes == {1}

\* for the two samples of a frame, whether the envelope ends above 0.5
Highs == BOOLEAN \X BOOLEAN

\* the effects of a chain on buffers of up to 2 * MaxLen + 1 samples, the gate
\* on buffers of one or two frames
NextEffects ==
    \/ \E len \in 0..(2 * MaxLen + 1) : EqualizerProcess(len)
    \/ \E len \in 0..(2 * MaxLen + 1) : CompressorProcess(len)
    \/ \E sample_rate \in SampleRates, hold_ms \in HoldTimes :
          GateCreate(sample_rate, hold_ms)
    \/ \E highs \in [1..1 -> Highs] \cup [1..2 -> Highs] : GateProcess(highs)

SpecEffects == Init /\ [][NextEffects]_vars

\* C35: the equalizer and the compressor put every sample of a buffer through
\* a filter or envelope exactly once, the last sample of a buffer of odd length
\* through the left one.
C35_OddTailProcessed ==
    last.op \in {"equalizer_process", "compressor_process"} =>
        /\ \A k \in 0..(last.len - 1) : Len(last.result[k]) = 1
        /\ last.len % 2 = 1 => last.result[last.len - 1] = <<"left">>

\* C36: the hold counters of the gate are seeded with the hold time times the
\* sample rate the gate was constructed with whenever the envelope is above
\* 0.5, go down by one per sample otherwise, and never below 0.
C36_HoldSeededAtEngineRate ==
    (last.op = "noise_gate_process" /\ noise_gate # None) =>
        LET gate == the(noise_gate)
            seed == (gate.hold_ms * gate.sample_rate) \div 1000
            final == last.highs[Len(last.highs)]
        IN /\ gate.hold_counter_left >= 0
           /\ gate.hold_counter_right >= 0
           /\ final[1] => gate.hold_counter_left = seed
           /\ final[2] => gate.hold_counter_right = seed
           /\ (Len(last.highs) = 1 /\ ~final[1]) =>
                 gate.hold_counter_left
                    = IF last.before.hold_counter_left > 0
                      THEN last.before.hold_counter_left - 1
                      ELSE 0

(* -------------------------- claims: resampling ------------------------- *)

\* device and target rates of an input stream, its channel counts, and the
\* buffers its callback is given: silence, or samples that alternate between
\* zero and full scale, up to 2 * MaxLen samples long
StreamRates == {44100, 48000}

StreamChannels == {1, 2}

CallbackData ==
    {[k \in 1..len |-> level * (k % 2)] : len \in 1..(2 * MaxLen), level \in {0, One}}

NextResampling ==
    \/ \E s \in StreamRates, t \in StreamRates, c \in StreamChannels :
           AudioStream_create_input_stream(s, t, c)
    \/ \E data \in CallbackData :
           InputStreamCallback(data)

SpecResampling == Init /\ [][NextResampling]_vars

\* C38: when resampling is active, the buffer an input callback forwards to the
\* worker holds exactly the n samples Resampler::process reported as written
C38_ForwardsWrittenSamples ==
    (last.op = "input_callback" /\ last.resampling) => Len(last.sent) = last.n

(* ----------------------- claims: the two ring buffers ------------------ *)

\* one sequence of write and read calls, each made on both buffers
NextBoth ==
    \/ \E n \in 0..MaxChunk : BothWrite(n)
    \/ \E len \in 0..MaxChunk : BothRead(len)

SpecBoth == Init /\ [][NextBoth]_vars

\* what the last call returned is the same on both buffers
SameResult ==
    last.op \in {"write", "read"} => last.lock_free = last.ring

SameAvailable ==
    /\ RingBuffer_available_read(ring_buffer)
           = available_read_internal(read_pos, write_pos)
    /\ RingBuffer_available_write(ring_buffer)
           = available_write_internal(write_pos, read_pos)

\* C39: over the same power-of-two capacity and the same sequence of write and
\* read calls, LockFreeRingBuffer and RingBuffer return the same counts and the
\* same data and report the same available_read and available_write after
\* every call
C39_BuffersAgree ==
    /\ ring_buffer.capacity = capacity
    /\ SameResult
    /\ SameAvailable

\* a read that returns samples after the write cursor has gone past the end of
\* the storage, so that the two write cursors differ
C39_Witness ==
    /\ write_pos >= capacity
    /\ ring_buffer.write_pos # write_pos
    /\ last.op = "read"
    /\ last.ring.ret > 0
    /\ last.lock_free.out = last.ring.out

(* --------------------- claims: configuration round trip ---------------- *)

\* the ids the set_route command is given: a channel, present or not, and a bus
RoundTripSources == {ChannelNames[1], StandardBus[1]}

RoundTripDestinations == {StandardBus[1]}

\* the commands that change what a configuration records
NextRoundTrip ==
    \/ \E id \in MixChannels : CommandAddChannel(id)
    \/ \E id \in MixChannels : CommandRemoveChannel(id)
    \/ ToggleMute(ChannelNames[1])
    \/ SetVolume(ChannelNames[1], -6)
    \/ \E from \in RoundTripSources, to \in RoundTripDestinations, enabled \in BOOLEAN :
           CommandSetRoute(from, to, enabled)
    \/ CommandAddBus
    \/ CommandRemoveBus
    \/ SetBusVolume(StandardBus[3], -6)

SpecRoundTrip == Init /\ [][NextRoundTrip]_vars

\* MixerConfig::from_mixer_engine(E).to_mixer_engine() for the current mixer E
RoundTrip ==
    to_mixer_engine(from_mixer_engine(
        [channels |-> channels, buses |-> buses, routing |-> routing]))

SameChannels ==
    /\ DOMAIN RoundTrip.channels = DOMAIN channels
    /\ \A id \in DOMAIN channels :
           /\ RoundTrip.channels[id].volume = channels[id].volume
           /\ RoundTrip.channels[id].muted = channels[id].muted
           /\ RoundTrip.channels[id].solo = channels[id].solo
           /\ RoundTrip.channels[id].input_device = channels[id].input_device

SameBuses == RoundTrip.buses = buses

SameRouted ==
    \A from \in RoundTripSources, to \in RoundTripDestinations :
        is_routed(RoundTrip.routing, from, to) = is_routed(routing, from, to)

\* C40: for every mixer E the commands reach, from_mixer_engine(E).to_mixer_engine()
\* has the same channels, the same buses and the same is_routed relation as E
C40_RoundTripKeepsMixer == SameChannels /\ SameBuses /\ SameRouted

\* the part of the round trip that holds in every reachable mixer
ChannelsAndBusesKept == SameChannels /\ SameBuses

====
